---- MODULE Spec2Model ----
(***************************************************************************)
(* react-azure-msal-security: the AuthenticationService singleton          *)
(* (aad.service.js, src/unnamed/part_003), its session state store and     *)
(* the identity provider context (Msal.UserAgentApplication) it drives.    *)
(*                                                                         *)
(* JavaScript runs one task at a time.  Every action below is one task: a  *)
(* public call of the service up to the point where it returns, or the     *)
(* provider settling one request together with the promise reactions       *)
(* (then / catch / finally handlers) that the settlement runs.             *)
(***************************************************************************)
EXTENDS Integers, Sequences, FiniteSets, TLC

\* ------------------------------------------------------------------ bounds

\* public calls of login, sso, acquireToken and acquireTokenSilent in one run
MaxCalls == 2

\* broadcasts in one run of the session state store alone (SpecStore)
MaxBroadcasts == 3

\* ------------------------------------------------------------- value sets

\* null / undefined promise handle
null == 0

\* failures the provider reports
Errors == {"e1", "e2"}

\* the token container the provider resolves a silent request with
Tokens == {"t1"}

\* types.LOGIN_TYPE
LOGIN_TYPE == [REDIRECT |-> "loginRedirect", POPUP |-> "loginPopup"]

\* what context.getCachedTokenInternal can yield: nothing, a container that
\* lacks one of the two tokens, a complete one, or an exception
CacheLookups == {"none", "access", "id", "both", "cannot_parse_cache", "other_error"}

\* the keys of the session state object
Fields == {"authenticated", "authenticating", "error"}

VARIABLES
    initialized,            \* init() has run
    disabled,               \* AuthenticationService.disabled (its truthiness)
    state,                  \* AuthenticationService.state
    Error,                  \* AuthenticationService.Error, set by acquireToken
    acquireTokenPromise,    \* AuthenticationService.acquireTokenPromise
    AuthenticatingPromise,  \* AuthenticationService.AuthenticatingPromise
    account,                \* context.getAccount() is not null
    loginInProgress,        \* context.getLoginInProgress()
    acquireTokenInProgress, \* context.getAcquireTokenInProgress()
    redirectCallback,       \* login promise whose callback handleRedirectCallback holds
    promises,               \* every promise made so far: kind, status, value
    inflight,               \* requests the provider has not settled yet
    triggers,               \* number of observer.trigger calls so far
    providerCalls,          \* number of calls made on the provider context
    calls,                  \* public calls made so far and what each has got
    lastSet,                \* the latest setState call: prior state, changes, result
    storage,                \* window[storageType]: the item kept under each key
    now,                    \* the clock: new Date() in days, Date.now() in ticks
    cacheCalls,             \* cacheAsyncCallback calls made so far, each with its producer
    lastWrite,              \* the latest direct write(key, value) call
    subscriptors,           \* Observer.subscriptors: id and callback, in key order
    subscribers,            \* the subscribe calls made so far and what each has got
    lastTrigger,            \* the latest Observer.trigger call
    deliveries,             \* the callbacks invoked by the latest state change
    consumers               \* the components that use useAuthenticationState

vars == << initialized, disabled, state, Error, acquireTokenPromise,
           AuthenticatingPromise, account, loginInProgress, acquireTokenInProgress,
           redirectCallback, promises, inflight, triggers, providerCalls, calls, lastSet,
           storage, now, cacheCalls, lastWrite,
           subscriptors, subscribers, lastTrigger, deliveries, consumers >>

\* the clock and the cached calls, which the service never touches
cacheVars == << now, cacheCalls, lastWrite >>

\* the state of an Observer taken alone
observerVars == << subscriptors, subscribers, lastTrigger, deliveries, consumers >>

\* what the subscribers of the service's observer have been told and hold
hookVars == << deliveries, consumers >>

\* the state of the service, which the persistent cache never touches
serviceVars == << initialized, disabled, state, Error, acquireTokenPromise,
                  AuthenticatingPromise, account, loginInProgress,
                  acquireTokenInProgress, redirectCallback, promises, inflight,
                  triggers, providerCalls, calls, lastSet >>

\* The mutable part of the program as one value, so that a handler that calls
\* another handler is the composition of the two.
World ==
    [ disabled |-> disabled, state |-> state, Error |-> Error,
      acquireTokenPromise |-> acquireTokenPromise,
      AuthenticatingPromise |-> AuthenticatingPromise,
      account |-> account, loginInProgress |-> loginInProgress,
      acquireTokenInProgress |-> acquireTokenInProgress,
      redirectCallback |-> redirectCallback,
      promises |-> promises, inflight |-> inflight, triggers |-> triggers,
      providerCalls |-> providerCalls, calls |-> calls, lastSet |-> lastSet,
      storage |-> storage ]

\* lastSet is the record of the store's latest call; it is kept only in the
\* runs of the store alone (SpecStore)
Install(w) ==
    /\ disabled' = w.disabled
    /\ state' = w.state
    /\ Error' = w.Error
    /\ acquireTokenPromise' = w.acquireTokenPromise
    /\ AuthenticatingPromise' = w.AuthenticatingPromise
    /\ account' = w.account
    /\ loginInProgress' = w.loginInProgress
    /\ acquireTokenInProgress' = w.acquireTokenInProgress
    /\ redirectCallback' = w.redirectCallback
    /\ promises' = w.promises
    /\ inflight' = w.inflight
    /\ triggers' = w.triggers
    /\ providerCalls' = w.providerCalls
    /\ calls' = w.calls
    /\ storage' = w.storage

\* ------------------------------------------------------ session state store

\* the object has the key
Has(s, key) == key \in DOMAIN s

\* { ...s, ...changes }
Spread(s, changes) ==
    [ key \in (DOMAIN s) \cup (DOMAIN changes) |->
        IF key \in DOMAIN changes THEN changes[key] ELSE s[key] ]

\* s[key] !== n[key] for a key of n; a missing key reads as undefined, which
\* differs from every value the service stores
StrictNotEqual(s, n, key) == (~ Has(s, key)) \/ s[key] # n[key]

\* a setState that broadcasts on every call, changed or not
setStateAlwaysTriggers(w, changes) ==
    LET newState == Spread(w.state, changes)
    IN  [ w EXCEPT !.state = newState, !.triggers = @ + 1,
            !.lastSet = [ called |-> TRUE, prev |-> w.state, changes |-> changes,
                          ret |-> newState, fired |-> 1 ] ]

\* AuthenticationService.setState: the first key whose value differs installs
\* the merged object and triggers the observer once; the call returns
\* AuthenticationService.state (read as w.state of the result)
setState(w, changes) ==
    LET newState == Spread(w.state, changes)
        changed  == \E key \in DOMAIN newState : StrictNotEqual(w.state, newState, key)
        after    == IF changed THEN newState ELSE w.state
    IN  [ w EXCEPT !.state = after,
            !.triggers = IF changed THEN @ + 1 ELSE @,
            !.lastSet = [ called |-> TRUE, prev |-> w.state, changes |-> changes,
                          ret |-> after, fired |-> IF changed THEN 1 ELSE 0 ] ]

\* ------------------------------------------------- cache.util: the values

\* days the clock can reach
MaxNow == 2

\* cacheAsyncCallback calls in one run
MaxCached == 2

\* the keys of the storage: the one the cache is used with, and one that
\* belongs to something else kept in the same storage
Keys == {"msal.id.info", "msal.idtoken"}

\* a JavaScript value, tagged with its type: undefined, null, a boolean, a
\* number, a string, a Date, an array, or a plain object (its keys in
\* insertion order with their values)
JUndefined == [t |-> "undefined"]

JNull == [t |-> "null"]

JBool(b) == [t |-> "boolean", b |-> b]

JNum(n) == [t |-> "number", n |-> n]

JStr(s) == [t |-> "string", s |-> s]

JDate(day) == [t |-> "date", day |-> day]

JArr(items) == [t |-> "array", items |-> items]

JObj(keys, vals) == [t |-> "object", keys |-> keys, vals |-> vals]

\* value[key], undefined when value is no object with that key
Get(value, key) ==
    IF value.t = "object" /\ \E i \in 1..Len(value.keys) : value.keys[i] = key
    THEN value.vals[CHOOSE i \in 1..Len(value.keys) : value.keys[i] = key]
    ELSE JUndefined

\* !!value
Truthy(value) ==
    CASE value.t \in {"undefined", "null"} -> FALSE
      [] value.t = "boolean" -> value.b
      [] value.t = "number" -> value.n # 0
      [] value.t = "string" -> value.s # ""
      [] OTHER -> TRUE

\* the days a Date can stand for
Days == 0..(MaxNow + 1)

\* Date.prototype.toJSON: the text a Date is serialized as
ISO(day) == "2021-01-0" \o ToString(day + 1)

\* new Date(value).getTime(), -1 standing for NaN
getTime(value) ==
    IF value.t = "date" THEN value.day
    ELSE IF value.t = "string" /\ \E day \in Days : ISO(day) = value.s
    THEN CHOOSE day \in Days : ISO(day) = value.s
    ELSE -1

\* the numbers and the strings that occur in stored values
Numbers == 0..1

Strings == {"", "x", "y", "a", "data", "expiration"} \cup { ISO(day) : day \in Days }

\* a string literal of JSON text
Quote(s) == "\"" \o s \o "\""

\* the JSON text of a value, token by token.  undefined has no text (an empty
\* sequence); as an array element it is written null, as a member it is left
\* out; a Date is written as the string toJSON gives
RECURSIVE stringify(_), stringifyItems(_, _), stringifyMembers(_, _, _)
stringify(value) ==
    CASE value.t = "undefined" -> << >>
      [] value.t = "null" -> << "null" >>
      [] value.t = "boolean" -> IF value.b THEN << "true" >> ELSE << "false" >>
      [] value.t = "number" -> << ToString(value.n) >>
      [] value.t = "string" -> << Quote(value.s) >>
      [] value.t = "date" -> << Quote(ISO(value.day)) >>
      [] value.t = "array" -> << "[" >> \o stringifyItems(value.items, 1) \o << "]" >>
      [] value.t = "object" ->
            << "{" >> \o stringifyMembers(value, 1, TRUE) \o << "}" >>

stringifyItems(items, i) ==
    IF i > Len(items) THEN << >>
    ELSE (IF i > 1 THEN << "," >> ELSE << >>)
         \o (IF items[i].t = "undefined" THEN << "null" >> ELSE stringify(items[i]))
         \o stringifyItems(items, i + 1)

stringifyMembers(object, i, first) ==
    IF i > Len(object.keys) THEN << >>
    ELSE IF object.vals[i].t = "undefined" THEN stringifyMembers(object, i + 1, first)
    ELSE (IF first THEN << >> ELSE << "," >>)
         \o << Quote(object.keys[i]), ":" >> \o stringify(object.vals[i])
         \o stringifyMembers(object, i + 1, FALSE)

\* the outcome of parsing: a value and the tokens left, or a SyntaxError
SyntaxError == [ok |-> FALSE, v |-> JUndefined, rest |-> << >>]

Parsed(v, rest) == [ok |-> TRUE, v |-> v, rest |-> rest]

\* a JSON value at the head of the tokens
RECURSIVE parseValue(_), parseElements(_, _), parseMembers(_, _, _)
parseValue(toks) ==
    IF toks = << >> THEN SyntaxError
    ELSE LET h == Head(toks)
             r == Tail(toks)
         IN  CASE h = "null" -> Parsed(JNull, r)
               [] h = "true" -> Parsed(JBool(TRUE), r)
               [] h = "false" -> Parsed(JBool(FALSE), r)
               [] \E n \in Numbers : ToString(n) = h ->
                     Parsed(JNum(CHOOSE n \in Numbers : ToString(n) = h), r)
               [] \E s \in Strings : Quote(s) = h ->
                     Parsed(JStr(CHOOSE s \in Strings : Quote(s) = h), r)
               [] h = "[" ->
                     IF r # << >> /\ Head(r) = "]" THEN Parsed(JArr(<< >>), Tail(r))
                     ELSE parseElements(r, << >>)
               [] h = "{" ->
                     IF r # << >> /\ Head(r) = "}" THEN Parsed(JObj(<< >>, << >>), Tail(r))
                     ELSE parseMembers(r, << >>, << >>)
               [] OTHER -> SyntaxError

parseElements(toks, items) ==
    LET e == parseValue(toks)
    IN  IF (~ e.ok) \/ e.rest = << >> THEN SyntaxError
        ELSE IF Head(e.rest) = "]" THEN Parsed(JArr(Append(items, e.v)), Tail(e.rest))
        ELSE IF Head(e.rest) = "," THEN parseElements(Tail(e.rest), Append(items, e.v))
        ELSE SyntaxError

parseMembers(toks, keys, vals) ==
    IF Len(toks) < 3 \/ toks[2] # ":" \/ ~ \E s \in Strings : Quote(s) = toks[1]
    THEN SyntaxError
    ELSE LET key == CHOOSE s \in Strings : Quote(s) = toks[1]
             e   == parseValue(SubSeq(toks, 3, Len(toks)))
         IN  IF (~ e.ok) \/ e.rest = << >> THEN SyntaxError
             ELSE IF Head(e.rest) = "}"
             THEN Parsed(JObj(Append(keys, key), Append(vals, e.v)), Tail(e.rest))
             ELSE IF Head(e.rest) = ","
             THEN parseMembers(Tail(e.rest), Append(keys, key), Append(vals, e.v))
             ELSE SyntaxError

\* JSON.parse: the value the whole text stands for, or a SyntaxError
parse(text) ==
    LET e == parseValue(text)
    IN  IF e.ok /\ e.rest = << >> THEN e ELSE SyntaxError

\* ------------------------------------------------ cache.util: the storage

\* what the storage holds under a key: nothing, or a text
NoItem == [present |-> FALSE, text |-> << >>]

Item(text) == [present |-> TRUE, text |-> text]

\* String(value), the text setItem makes of a value that is not a string
String(value) ==
    CASE value.t = "undefined" -> << "undefined" >>
      [] value.t = "null" -> << "null" >>
      [] value.t = "string" -> IF value.s = "" THEN << >> ELSE << value.s >>
      [] value.t \in {"object", "date"} -> << "[object Object]" >>
      [] OTHER -> stringify(value)

\* Storage.clear()
clear(store) == [ key \in DOMAIN store |-> NoItem ]

\* a write that stores the value without serializing it
writeUnserialized(store, key, value, accepts) ==
    IF accepts THEN [ store EXCEPT ![key] = Item(String(value)) ]
    ELSE clear(store)

\* write(key, value): a falsy value is stored as setItem coerces it, any
\* other value as its JSON text; when stringify or setItem throws (accepts is
\* false: the storage is full or refuses items) the whole storage is cleared
write(store, key, value, accepts) ==
    IF accepts
    THEN [ store EXCEPT ![key] = Item(IF ~ Truthy(value) THEN String(value)
                                      ELSE stringify(value)) ]
    ELSE clear(store)

\* read(key): null when there is no item or the item is the empty string or
\* one of the texts null, undefined, {}, []; otherwise what JSON.parse makes
\* of the item, whose SyntaxError is not caught
read(store, key) ==
    LET data == store[key]
    IN  IF (~ data.present) \/ data.text = << >>
           \/ data.text \in { << "null" >>, << "undefined" >>, << "{", "}" >>, << "[", "]" >> }
        THEN [threw |-> FALSE, v |-> JNull]
        ELSE [threw |-> ~ parse(data.text).ok, v |-> parse(data.text).v]

\* dateNextDays(days) on the day today: null for a falsy days
dateNextDays(days, today) ==
    IF days = 0 THEN JNull ELSE JDate(today + days)

\* the entry cacheAsyncCallback writes
Entry(expiration, data) == JObj(<< "expiration", "data" >>, << expiration, data >>)

\* no direct write yet
NoWrite == [called |-> FALSE, key |-> "", value |-> JUndefined, accepts |-> FALSE]

\* the storage of a browser that has run nothing of the cache yet: another
\* key of the same storage holds an item
CacheIdle ==
    /\ storage = [ key \in Keys |-> IF key = "msal.idtoken" THEN Item(<< Quote("x") >>)
                                    ELSE NoItem ]
    /\ now = 0
    /\ cacheCalls = << >>
    /\ lastWrite = NoWrite

\* ---------------------------------------------------------------- Observer

\* subscribe calls in one run of an Observer taken alone (SpecObserver)
MaxSubscribers == 3

\* what unsubscribe leaves in a slot
undefined == null

\* an id that no subscribe call has returned
Unissued == "unissued"

\* the position of key id in this.subscriptors, 0 when it has no such key
Slot(subs, id) ==
    IF \E n \in 1..Len(subs) : subs[n].id = id
    THEN CHOOSE n \in 1..Len(subs) : subs[n].id = id
    ELSE 0

\* this.subscriptors[id] = callback: a key the object has already keeps its
\* place and loses the value it had
Assign(subs, id, callback) ==
    IF Slot(subs, id) = 0
    THEN Append(subs, [ id |-> id, callback |-> callback ])
    ELSE [ subs EXCEPT ![Slot(subs, id)].callback = callback ]

\* Observer.subscribe: the id is Date.now().toString()
subscribe(subs, clock, callback) ==
    [ subs |-> Assign(subs, ToString(clock), callback), id |-> ToString(clock) ]

\* Observer.unsubscribe
unsubscribe(subs, id) == Assign(subs, id, undefined)

\* Observer.trigger from slot n on: the callbacks of Object.values, in order,
\* each called unless it is falsy; what a callback throws leaves the loop
RECURSIVE trigger(_, _, _)
trigger(subs, n, throwers) ==
    IF n > Len(subs) THEN [ invoked |-> << >>, threw |-> FALSE ]
    ELSE IF subs[n].callback = undefined THEN trigger(subs, n + 1, throwers)
    ELSE IF subs[n].callback \in throwers
    THEN [ invoked |-> << subs[n].callback >>, threw |-> TRUE ]
    ELSE LET rest == trigger(subs, n + 1, throwers)
         IN  [ invoked |-> << subs[n].callback >> \o rest.invoked, threw |-> rest.threw ]

\* no trigger yet
NoTrigger == [ called |-> FALSE, live |-> {}, invoked |-> << >>, threw |-> FALSE ]

\* a new Observer(): this.subscriptors = {}
ObserverIdle ==
    /\ subscriptors = << >>
    /\ subscribers = << >>
    /\ lastTrigger = NoTrigger
    /\ deliveries = << >>
    /\ consumers = << >>

\* ------------------------------------------------------------- promises

\* a promise just made.  Beside its status and value the table keeps, for the
\* properties, the provider calls made for it (log), the number of broadcasts
\* and the state when it was made (t0, s0), how it settled (via) and the state
\* at that moment (snap)
Promise(kind, w) ==
    [ kind |-> kind, status |-> "pending", value |-> "", via |-> "",
      log |-> << >>, t0 |-> w.triggers, s0 |-> w.state, snap |-> << >>,
      silent |-> "" ]

\* resolve or reject p; settling a settled promise changes nothing
Settle(w, p, status, value, via) ==
    IF w.promises[p].status # "pending" THEN w
    ELSE [ w EXCEPT !.promises[p] =
             [ @ EXCEPT !.status = status, !.value = value, !.via = via,
                        !.snap = w.state ] ]

\* the state object a failed login rejects with, as a value distinct from
\* the bare error it carries
StateWith(e) == IF e = "e1" THEN "state{error:e1}" ELSE "state{error:e2}"

\* a public call that has not got anything yet
Call(op) ==
    [ op |-> op, handle |-> null, pendingAt |-> null, force |-> FALSE,
      cache |-> "skip", silentCalled |-> FALSE, issued |-> FALSE,
      waitOn |-> null, result |-> "pending", value |-> "", fallback |-> "none",
      claims |-> "", scopes |-> JUndefined, lookedUp |-> JUndefined ]

\* the provider request of kind api still in flight for the caller `by`
Pending(w, api, by) == { r \in w.inflight : r.api = api /\ r.by = by }

\* the promise of that request, null when there is none
PendingPromise(w, api, by) ==
    IF Pending(w, api, by) = {} THEN null
    ELSE (CHOOSE r \in Pending(w, api, by) : TRUE).p

\* a call on the provider context, counted, and logged in order with the
\* promise p it is made for (when p is one of the table)
Provider(w, api, p) ==
    IF p \in 1..Len(w.promises)
    THEN [ w EXCEPT !.providerCalls = @ + 1, !.promises[p].log = Append(@, api) ]
    ELSE [ w EXCEPT !.providerCalls = @ + 1 ]

\* ------------------------------------------------- AuthenticationService

\* AuthenticationService.isAuthenticated
isAuthenticated(w) == w.disabled \/ w.account

\* the executor of login's promise without setState({ authenticating: true })
loginExecutorSilentStart(w, type, throws) ==
    LET L  == Len(w.promises) + 1
        w0 == [ w EXCEPT !.promises = Append(@, Promise("login", w)),
                         !.AuthenticatingPromise = L ]
    IN  IF isAuthenticated(w0)
        THEN [ w |-> Settle(w0, L, "resolved", "state", "immediate"),
               ret |-> L, how |-> "immediate" ]
        ELSE LET w2 == Provider(w0, "acquireTokenSilent", L)
             IN  IF throws
                 THEN [ w |-> Settle(w2, L, "rejected", "thrown", "throw"),
                        ret |-> L, how |-> "flow" ]
                 ELSE [ w |-> [ w2 EXCEPT !.inflight = @ \cup
                                  { [ api |-> "acquireTokenSilent", by |-> "login",
                                      p |-> L, type |-> type ] } ],
                        ret |-> L, how |-> "flow" ]

\* the executor of login's promise: an authenticated service resolves with
\* the state at once; otherwise authenticating is set and the provider is
\* asked for a token silently.  The provider call may throw before it returns
\* a promise, which rejects login's promise.
loginExecutor(w, type, throws) ==
    LET L  == Len(w.promises) + 1
        w0 == [ w EXCEPT !.promises = Append(@, Promise("login", w)),
                         !.AuthenticatingPromise = L ]
    IN  IF isAuthenticated(w0)
        THEN [ w |-> Settle(w0, L, "resolved", "state", "immediate"),
               ret |-> L, how |-> "immediate" ]
        ELSE LET w1 == setState(w0, [ authenticating |-> TRUE ])
                 w2 == Provider(w1, "acquireTokenSilent", L)
             IN  IF throws
                 THEN [ w |-> Settle(w2, L, "rejected", "thrown", "throw"),
                        ret |-> L, how |-> "flow" ]
                 ELSE [ w |-> [ w2 EXCEPT !.inflight = @ \cup
                                  { [ api |-> "acquireTokenSilent", by |-> "login",
                                      p |-> L, type |-> type ] } ],
                        ret |-> L, how |-> "flow" ]

\* a login that starts a flow on every call
loginNoSingleton(w, type, throws) ==
    IF w.disabled THEN [ w |-> w, ret |-> null, how |-> "disabled" ]
    ELSE loginExecutor(w, type, throws)

\* AuthenticationService.login: null when disabled, the stored promise when
\* there is one (pending or settled), else a new promise, stored
login(w, type, throws) ==
    IF w.disabled THEN [ w |-> w, ret |-> null, how |-> "disabled" ]
    ELSE IF w.AuthenticatingPromise # null
    THEN [ w |-> w, ret |-> w.AuthenticatingPromise,
           how |-> IF w.promises[w.AuthenticatingPromise].status = "pending"
                   THEN "attached" ELSE "settled" ]
    ELSE loginExecutor(w, type, throws)

\* an acquireTokenSilent that never returns the stored promise
acquireTokenSilentNoSingleton(w, throws) ==
    IF w.disabled THEN [ w |-> w, ret |-> null, issued |-> FALSE, threw |-> FALSE ]
    ELSE LET P  == Len(w.promises) + 1
             w1 == [ w EXCEPT !.acquireTokenInProgress = TRUE ]
         IN  IF throws
             THEN [ w |-> Provider(w1, "acquireTokenSilent", null),
                    ret |-> null, issued |-> TRUE, threw |-> TRUE ]
             ELSE [ w |-> Provider(
                            [ w1 EXCEPT !.promises = Append(@, Promise("silent", w)),
                                        !.acquireTokenPromise = P,
                                        !.inflight = @ \cup
                                          { [ api |-> "acquireTokenSilent",
                                              by |-> "acquireTokenSilent",
                                              p |-> P, type |-> "" ] } ],
                            "acquireTokenSilent", P),
                    ret |-> P, issued |-> TRUE, threw |-> FALSE ]

\* AuthenticationService.acquireTokenSilent: null when disabled; the stored
\* promise while the provider's in-progress flag is set; otherwise the flag is
\* set and the provider is asked, its promise stored and returned behind a
\* finally that clears the flag (the finally passes the outcome through, so
\* the handle returned stands for the provider's promise).  When the provider
\* call throws, nothing is stored and no finally is attached.
acquireTokenSilent(w, throws) ==
    IF w.disabled THEN [ w |-> w, ret |-> null, issued |-> FALSE, threw |-> FALSE ]
    ELSE IF w.acquireTokenPromise # null /\ w.acquireTokenInProgress
    THEN [ w |-> w, ret |-> w.acquireTokenPromise, issued |-> FALSE, threw |-> FALSE ]
    ELSE LET P  == Len(w.promises) + 1
             w1 == [ w EXCEPT !.acquireTokenInProgress = TRUE ]
         IN  IF throws
             THEN [ w |-> Provider(w1, "acquireTokenSilent", null),
                    ret |-> null, issued |-> TRUE, threw |-> TRUE ]
             ELSE [ w |-> Provider(
                            [ w1 EXCEPT !.promises = Append(@, Promise("silent", w)),
                                        !.acquireTokenPromise = P,
                                        !.inflight = @ \cup
                                          { [ api |-> "acquireTokenSilent",
                                              by |-> "acquireTokenSilent",
                                              p |-> P, type |-> "" ] } ],
                            "acquireTokenSilent", P),
                    ret |-> P, issued |-> TRUE, threw |-> FALSE ]

\* the reaction acquireToken attaches to the handle acquireTokenSilent gave
\* it, run for call i once that promise p is settled:
\*   .then((account) => resolve(account)).catch(() => login())
\* The promise login() returns is dropped: resolve is never called on this path.
tokenReaction(w, i, p, throws) ==
    IF w.promises[p].status = "resolved"
    THEN [ w EXCEPT !.calls[i].result = "account",
                    !.calls[i].value = w.promises[p].value,
                    !.calls[i].waitOn = null ]
    ELSE LET r == login(w, LOGIN_TYPE.REDIRECT, throws)
         IN  [ r.w EXCEPT !.calls[i].fallback = r.how, !.calls[i].waitOn = null ]

\* the reaction sso attaches to the promise p that login() gave it, run for
\* call i once p is settled:
\*   .then(() => resolve(setState({ authenticating: false, authenticated: true })))
\*   .catch((error) => reject(setState({ authenticating: false, error })))
ssoReaction(w, i, p) ==
    LET S == w.calls[i].handle
    IN  IF w.promises[p].status = "resolved"
        THEN LET w1 == setState(w, [ authenticating |-> FALSE, authenticated |-> TRUE ])
             IN  [ Settle(w1, S, "resolved", "state", "login")
                     EXCEPT !.calls[i].result = "resolved", !.calls[i].waitOn = null ]
        ELSE LET reason == w.promises[p].value
                 w1 == setState(w, [ authenticating |-> FALSE, error |-> reason ])
             IN  [ Settle(w1, S, "rejected", "state", "login")
                     EXCEPT !.calls[i].result = "rejected", !.calls[i].waitOn = null ]

\* the reactions of the calls that wait on p, in the order of the calls
RECURSIVE Reactions(_, _, _, _)
Reactions(w, p, i, throws) ==
    IF i > Len(w.calls) THEN w
    ELSE IF w.calls[i].waitOn # p THEN Reactions(w, p, i + 1, throws)
    ELSE IF w.calls[i].op = "sso" THEN Reactions(ssoReaction(w, i, p), p, i + 1, throws)
    ELSE Reactions(tokenReaction(w, i, p, throws), p, i + 1, throws)

\* call i starts to wait on p; a reaction attached to a settled promise runs
\* as soon as the current task is over, so it is part of the same step
Attach(w, i, p, throws) ==
    LET w1 == [ w EXCEPT !.calls[i].waitOn = p ]
    IN  IF w.promises[p].status = "pending" THEN w1
        ELSE Reactions(w1, p, i, throws)

\* the branch of acquireToken that calls acquireTokenSilent for call i:
\*   acquireTokenSilent({ ... }).then((account) => resolve(account))
\*                              .catch(() => login())
\* inside the executor, whose exceptions the trailing
\*   .catch((error) => AuthenticationService.Error = error)
\* turns into the resolved value
acquireTokenViaSilent(w, i, throws) ==
    LET r  == acquireTokenSilent(w, throws)
        w2 == [ r.w EXCEPT !.calls[i].silentCalled = TRUE,
                           !.calls[i].pendingAt =
                               PendingPromise(w, "acquireTokenSilent", "acquireTokenSilent"),
                           !.calls[i].issued = r.issued,
                           !.calls[i].handle = r.ret ]
    IN  IF r.threw
        THEN [ w2 EXCEPT !.calls[i].result = "error",
                         !.calls[i].value = "thrown", !.Error = "thrown" ]
        ELSE IF r.ret = null
        THEN [ w2 EXCEPT !.calls[i].result = "error",
                         !.calls[i].value = "TypeError", !.Error = "TypeError" ]
        ELSE Attach(w2, i, r.ret, throws)

\* types.DEFAULT_SCOPES
DEFAULT_SCOPES == JArr(<< JStr("user.read") >>)

\* the scopes a caller asks a token for
ScopeSets == { DEFAULT_SCOPES, JArr(<< JStr("mail.read") >>) }

\* the scopes a method takes from its argument, its parameter being
\*   { scopes = types.DEFAULT_SCOPES } = {}
\* the scopes property of the argument, the default when it has none
Scopes(arg) ==
    LET given == Get(IF arg = JUndefined THEN JObj(<< >>, << >>) ELSE arg, "scopes")
    IN  IF given = JUndefined THEN DEFAULT_SCOPES ELSE given

\* an acquireTokenInCache that empties the storage whatever the lookup throws
acquireTokenInCacheClearsAlways(w, arg, lookup) ==
    IF w.disabled THEN [ w |-> w, ret |-> "null", threw |-> FALSE, scopes |-> JUndefined ]
    ELSE LET w1 == Provider(w, "getCachedTokenInternal", null)
         IN  IF lookup \in {"cannot_parse_cache", "other_error"}
             THEN [ w |-> [ w1 EXCEPT !.storage = clear(@) ],
                    ret |-> lookup, threw |-> TRUE, scopes |-> Scopes(arg) ]
             ELSE [ w |-> w1, ret |-> lookup, threw |-> FALSE, scopes |-> Scopes(arg) ]

\* AuthenticationService.acquireTokenInCache: null when disabled; otherwise
\* what context.getCachedTokenInternal yields (lookup) for the scopes of the
\* argument.  What the lookup throws is thrown again, after
\* window.localStorage.clear() when its errorCode is 'cannot_parse_cache'.
acquireTokenInCache(w, arg, lookup) ==
    IF w.disabled THEN [ w |-> w, ret |-> "null", threw |-> FALSE, scopes |-> JUndefined ]
    ELSE LET w1 == Provider(w, "getCachedTokenInternal", null)
         IN  IF lookup = "cannot_parse_cache"
             THEN [ w |-> [ w1 EXCEPT !.storage = clear(@) ],
                    ret |-> lookup, threw |-> TRUE, scopes |-> Scopes(arg) ]
             ELSE IF lookup = "other_error"
             THEN [ w |-> w1, ret |-> lookup, threw |-> TRUE, scopes |-> Scopes(arg) ]
             ELSE [ w |-> w1, ret |-> lookup, threw |-> FALSE, scopes |-> Scopes(arg) ]

\* an acquireToken that takes a cached access token for a complete container
acquireTokenAccessOnly(w, scopes, force, lookup, throws) ==
    LET i      == Len(w.calls) + 1
        r      == acquireTokenInCache(w, scopes, lookup)
        cached == IF r.ret = "null" THEN "none" ELSE r.ret
        c0     == [ Call("acquireToken") EXCEPT !.force = force, !.scopes = scopes,
                      !.lookedUp = IF force THEN JUndefined ELSE r.scopes,
                      !.cache = IF force THEN "skip" ELSE cached ]
        w0     == IF force THEN w ELSE r.w
        w1     == [ w0 EXCEPT !.calls = Append(@, c0) ]
    IN  IF (~ force) /\ r.threw
        THEN [ w1 EXCEPT !.calls[i].result = "error", !.calls[i].value = cached,
                         !.Error = cached ]
        ELSE IF (~ force) /\ cached \in {"both", "access"}
        THEN [ w1 EXCEPT !.calls[i].result = "cached" ]
        ELSE acquireTokenViaSilent(w1, i, throws)

\* AuthenticationService.acquireToken({ scopes, forceTokenRefresh }).
\* Without forceTokenRefresh the provider's cache is looked up first:
\* acquireTokenInCache(scopes) is given the array of scopes itself as its
\* argument.  A container with both tokens resolves the promise.  Otherwise
\* acquireTokenSilent is called and the reaction attached to what it returns.
\* Whatever is thrown inside the executor (by the cache lookup, by the
\* provider's silent call, or by calling .then on the null a disabled
\* acquireTokenSilent returns) rejects the inner promise, and the trailing
\* catch stores it in AuthenticationService.Error and resolves with it: a call
\* whose result is "error" has got a promise resolved with the error as its
\* value.
acquireToken(w, scopes, force, lookup, throws) ==
    LET i      == Len(w.calls) + 1
        r      == acquireTokenInCache(w, scopes, lookup)
        cached == IF r.ret = "null" THEN "none" ELSE r.ret
        c0     == [ Call("acquireToken") EXCEPT !.force = force, !.scopes = scopes,
                      !.lookedUp = IF force THEN JUndefined ELSE r.scopes,
                      !.cache = IF force THEN "skip" ELSE cached ]
        w0     == IF force THEN w ELSE r.w
        w1     == [ w0 EXCEPT !.calls = Append(@, c0) ]
    IN  IF (~ force) /\ r.threw
        THEN [ w1 EXCEPT !.calls[i].result = "error", !.calls[i].value = cached,
                         !.Error = cached ]
        ELSE IF (~ force) /\ cached = "both"
        THEN [ w1 EXCEPT !.calls[i].result = "cached" ]
        ELSE acquireTokenViaSilent(w1, i, throws)

\* AuthenticationService.sso: null when disabled; otherwise authenticating is
\* set and the provider's ssoSilent is asked
sso(w) ==
    LET i == Len(w.calls) + 1
    IN  IF w.disabled
        THEN [ w EXCEPT !.calls = Append(@, [ Call("sso") EXCEPT !.result = "null" ]) ]
        ELSE LET S  == Len(w.promises) + 1
                 w1 == setState(w, [ authenticating |-> TRUE ])
                 w2 == Provider([ w1 EXCEPT !.promises = Append(@, Promise("sso", w)) ],
                                "ssoSilent", S)
             IN  [ w2 EXCEPT !.inflight = @ \cup { [ api |-> "ssoSilent", by |-> "sso",
                                                     p |-> S, type |-> "" ] },
                             !.calls = Append(@, [ Call("sso") EXCEPT !.handle = S ]) ]

\* login's reaction to its silent request succeeding:
\*   .then(() => resolve(setState({ authenticating: false, authenticated: true })))
loginSilentThen(w, L) ==
    LET w1 == setState(w, [ authenticating |-> FALSE, authenticated |-> TRUE ])
    IN  Reactions(Settle(w1, L, "resolved", "state", "silent"), L, 1, FALSE)

\* a login that makes the interactive call before it hands over the callback
loginSilentCatchCallFirst(w, L, type) ==
    LET w1 == Provider(w, type, L)
        w2 == Provider([ w1 EXCEPT !.redirectCallback = L ], "handleRedirectCallback", L)
    IN  [ w2 EXCEPT !.loginInProgress = TRUE,
                    !.inflight = @ \cup { [ api |-> type, by |-> "login",
                                            p |-> L, type |-> type ] } ]

\* login's reaction to its silent request failing: the completion callback is
\* handed to the provider, then the interactive call of the given type is made
loginSilentCatch(w, L, type) ==
    LET w1 == Provider(w, "handleRedirectCallback", L)
        w2 == Provider([ w1 EXCEPT !.redirectCallback = L ], type, L)
    IN  [ w2 EXCEPT !.loginInProgress = TRUE,
                    !.inflight = @ \cup { [ api |-> type, by |-> "login",
                                            p |-> L, type |-> type ] } ]

\* the interactive login succeeded: the redirect callback got a response, or
\* the popup's promise resolved
loginInteractiveThen(w, L) ==
    LET w1 == setState(w, [ authenticating |-> FALSE, authenticated |-> TRUE ])
    IN  Reactions(Settle(w1, L, "resolved", "state", "interactive"), L, 1, FALSE)

\* the interactive login failed with error: the redirect callback got the
\* error, or the popup's promise rejected
loginInteractiveCatch(w, L, error) ==
    LET w1 == setState(w, [ authenticating |-> FALSE, error |-> error ])
    IN  Reactions(Settle(w1, L, "rejected", StateWith(error), "interactive"), L, 1, FALSE)

\* an init that takes no login to be in progress
initNotAuthenticating(w, config, disabledArg, hasAccount, inProgress) ==
    LET w1 == [ w EXCEPT !.disabled = disabledArg,
                         !.account = (~ disabledArg) /\ hasAccount,
                         !.loginInProgress = (~ disabledArg) /\ inProgress ]
    IN  setState(w1, [ authenticated  |-> w1.disabled \/ w1.account,
                       authenticating |-> FALSE ])

\* AuthenticationService.init(config, disabled).  config.disabled is not
\* read: only the second parameter decides.  A disabled service builds no
\* context; an enabled one builds it and finds whatever account and
\* interaction status the provider has persisted (hasAccount, inProgress).
init(w, config, disabledArg, hasAccount, inProgress) ==
    LET w1 == [ w EXCEPT !.disabled = disabledArg,
                         !.account = (~ disabledArg) /\ hasAccount,
                         !.loginInProgress = (~ disabledArg) /\ inProgress ]
    IN  setState(w1, [ authenticated  |-> w1.disabled \/ w1.account,
                       authenticating |-> (~ w1.disabled) /\ w1.loginInProgress ])

\* ----------------------------------------------------------------- actions

NoSet == [ called |-> FALSE, prev |-> << >>, changes |-> << >>, ret |-> << >>, fired |-> 0 ]

Init ==
    /\ initialized = FALSE
    /\ disabled = FALSE
    /\ state = << >>
    /\ Error = ""
    /\ acquireTokenPromise = null
    /\ AuthenticatingPromise = null
    /\ account = FALSE
    /\ loginInProgress = FALSE
    /\ acquireTokenInProgress = FALSE
    /\ redirectCallback = null
    /\ promises = << >>
    /\ inflight = {}
    /\ triggers = 0
    /\ providerCalls = 0
    /\ calls = << >>
    /\ lastSet = NoSet
    /\ CacheIdle
    /\ ObserverIdle

\* the application calls AuthenticationService.init
CallInit ==
    /\ ~ initialized
    /\ \E cfgDisabled \in BOOLEAN, disabledArg \in BOOLEAN,
          hasAccount \in BOOLEAN, inProgress \in BOOLEAN :
          /\ disabledArg => (~ hasAccount /\ ~ inProgress)
          /\ Install(init(World, [ disabled |-> cfgDisabled ], disabledArg,
                          hasAccount, inProgress))
    /\ initialized' = TRUE
    /\ UNCHANGED << lastSet, cacheVars, observerVars >>

CanCall == initialized /\ Len(calls) < MaxCalls

\* login({ type })
CallLogin ==
    /\ CanCall
    /\ \E type \in { LOGIN_TYPE.REDIRECT, LOGIN_TYPE.POPUP }, throws \in BOOLEAN :
          LET r == login(World, type, throws)
              c == [ Call("login") EXCEPT
                       !.handle = r.ret,
                       !.pendingAt = IF \E p \in 1..Len(promises) :
                                          promises[p].kind = "login"
                                          /\ promises[p].status = "pending"
                                     THEN CHOOSE p \in 1..Len(promises) :
                                          promises[p].kind = "login"
                                          /\ promises[p].status = "pending"
                                     ELSE null,
                       !.issued = (r.how = "flow"),
                       !.fallback = r.how,
                       !.result = IF r.ret = null THEN "null" ELSE "promise" ]
          IN  Install([ r.w EXCEPT !.calls = Append(@, c) ])
    /\ UNCHANGED << initialized, lastSet, cacheVars, observerVars >>

\* acquireTokenSilent() called directly
CallAcquireTokenSilent ==
    /\ CanCall
    /\ \E throws \in BOOLEAN :
          LET r == acquireTokenSilent(World, throws)
              c == [ Call("acquireTokenSilent") EXCEPT
                       !.handle = r.ret,
                       !.pendingAt = PendingPromise(World, "acquireTokenSilent",
                                                    "acquireTokenSilent"),
                       !.silentCalled = TRUE,
                       !.issued = r.issued,
                       !.result = IF r.threw THEN "error"
                                  ELSE IF r.ret = null THEN "null" ELSE "promise" ]
          IN  Install([ r.w EXCEPT !.calls = Append(@, c) ])
    /\ UNCHANGED << initialized, lastSet, cacheVars, observerVars >>

\* acquireToken({ scopes: types.DEFAULT_SCOPES, forceTokenRefresh }), the way
\* GraphService calls it
CallAcquireToken ==
    /\ CanCall
    /\ \E force \in BOOLEAN, lookup \in CacheLookups, throws \in BOOLEAN :
          /\ force => lookup = "none"
          /\ Install(acquireToken(World, DEFAULT_SCOPES, force, lookup, throws))
    /\ UNCHANGED << initialized, lastSet, cacheVars, observerVars >>

\* sso()
CallSso ==
    /\ CanCall
    /\ Install(sso(World))
    /\ UNCHANGED << initialized, lastSet, cacheVars, observerVars >>

\* the provider's request r leaves the flight
Landed(w, r) == [ w EXCEPT !.inflight = @ \ { r } ]

\* the provider resolves the silent request acquireTokenSilent made: the
\* finally clears the in-progress flag, then the waiting calls react
SilentResolves ==
    /\ \E r \in Pending(World, "acquireTokenSilent", "acquireTokenSilent"),
          token \in Tokens :
          LET w1 == Settle([ Landed(World, r) EXCEPT !.account = TRUE ],
                           r.p, "resolved", token, "provider")
              w2 == [ w1 EXCEPT !.acquireTokenInProgress = FALSE ]
          IN  Install(Reactions(w2, r.p, 1, FALSE))
    /\ UNCHANGED << initialized, lastSet, cacheVars, observerVars >>

\* the provider rejects the silent request acquireTokenSilent made
SilentRejects ==
    /\ \E r \in Pending(World, "acquireTokenSilent", "acquireTokenSilent"),
          error \in Errors, throws \in BOOLEAN :
          LET w1 == Settle(Landed(World, r), r.p, "rejected", error, "provider")
              w2 == [ w1 EXCEPT !.acquireTokenInProgress = FALSE ]
          IN  Install(Reactions(w2, r.p, 1, throws))
    /\ UNCHANGED << initialized, lastSet, cacheVars, observerVars >>

\* the provider resolves the silent request login made
LoginSilentResolves ==
    /\ \E r \in Pending(World, "acquireTokenSilent", "login") :
          Install(loginSilentThen([ Landed(World, r) EXCEPT
                                      !.account = TRUE,
                                      !.promises[r.p].silent = "resolved" ], r.p))
    /\ UNCHANGED << initialized, lastSet, cacheVars, observerVars >>

\* the provider rejects the silent request login made
LoginSilentRejects ==
    /\ \E r \in Pending(World, "acquireTokenSilent", "login") :
          Install(loginSilentCatch([ Landed(World, r) EXCEPT
                                       !.promises[r.p].silent = "rejected" ],
                                   r.p, r.type))
    /\ UNCHANGED << initialized, lastSet, cacheVars, observerVars >>

\* the interactive login (redirect or popup) ends with a response
InteractiveSucceeds ==
    /\ \E r \in { q \in inflight : q.api \in { LOGIN_TYPE.REDIRECT, LOGIN_TYPE.POPUP } } :
          Install(loginInteractiveThen(
                    [ Landed(World, r) EXCEPT !.account = TRUE,
                                              !.loginInProgress = FALSE ], r.p))
    /\ UNCHANGED << initialized, lastSet, cacheVars, observerVars >>

\* the interactive login ends with an error
InteractiveFails ==
    /\ \E r \in { q \in inflight : q.api \in { LOGIN_TYPE.REDIRECT, LOGIN_TYPE.POPUP } },
          error \in Errors :
          Install(loginInteractiveCatch(
                    [ Landed(World, r) EXCEPT !.loginInProgress = FALSE ], r.p, error))
    /\ UNCHANGED << initialized, lastSet, cacheVars, observerVars >>

\* the provider's ssoSilent resolves: sso's then
\*   resolve(setState({ authenticating: false, authenticated: true }))
SsoResolves ==
    /\ \E r \in Pending(World, "ssoSilent", "sso") :
          LET i  == CHOOSE j \in 1..Len(calls) : calls[j].op = "sso" /\ calls[j].handle = r.p
              w1 == setState([ Landed(World, r) EXCEPT !.account = TRUE ],
                             [ authenticating |-> FALSE, authenticated |-> TRUE ])
          IN  Install([ Settle(w1, r.p, "resolved", "state", "sso")
                          EXCEPT !.calls[i].result = "resolved" ])
    /\ UNCHANGED << initialized, lastSet, cacheVars, observerVars >>

\* the provider's ssoSilent rejects: sso's catch calls
\* login({ loginHint, scopes, forceTokenRefresh: true }) and reacts to its promise
SsoRejects ==
    /\ \E r \in Pending(World, "ssoSilent", "sso"), throws \in BOOLEAN :
          LET i  == CHOOSE j \in 1..Len(calls) : calls[j].op = "sso" /\ calls[j].handle = r.p
              l  == login(Landed(World, r), LOGIN_TYPE.REDIRECT, throws)
          IN  Install(Attach([ l.w EXCEPT !.calls[i].fallback = l.how ], i, l.ret, throws))
    /\ UNCHANGED << initialized, lastSet, cacheVars, observerVars >>

Next ==
    \/ CallInit
    \/ CallLogin
    \/ CallAcquireTokenSilent
    \/ CallAcquireToken
    \/ CallSso
    \/ SilentResolves
    \/ SilentRejects
    \/ LoginSilentResolves
    \/ LoginSilentRejects
    \/ InteractiveSucceeds
    \/ InteractiveFails
    \/ SsoResolves
    \/ SsoRejects

Spec == Init /\ [][Next]_vars

\* ------------------------------------------- the session state store alone

\* f restricted to the keys D
Restrict(f, D) == [ key \in D |-> f[key] ]

\* every object over a subset of the state's keys: the states the store can
\* hold and the partial changes setState can be given
PartialStates ==
    { Restrict([ authenticated |-> a, authenticating |-> g, error |-> e ], D) :
        a \in BOOLEAN, g \in BOOLEAN, e \in Errors, D \in SUBSET Fields }

InitStore ==
    /\ initialized = TRUE
    /\ disabled = FALSE
    /\ state \in PartialStates
    /\ Error = ""
    /\ acquireTokenPromise = null
    /\ AuthenticatingPromise = null
    /\ account = FALSE
    /\ loginInProgress = FALSE
    /\ acquireTokenInProgress = FALSE
    /\ redirectCallback = null
    /\ promises = << >>
    /\ inflight = {}
    /\ triggers = 0
    /\ providerCalls = 0
    /\ calls = << >>
    /\ lastSet = NoSet
    /\ CacheIdle
    /\ ObserverIdle

\* setState(changes) for any partial changes
Reconcile ==
    /\ triggers < MaxBroadcasts
    /\ \E changes \in PartialStates :
          /\ Install(setState(World, changes))
          /\ lastSet' = setState(World, changes).lastSet
    /\ UNCHANGED << initialized, cacheVars, observerVars >>

NextStore == Reconcile

SpecStore == InitStore /\ [][NextStore]_vars

\* ------------------------------------------------------------- properties

\* the two objects differ in a key or in the value of a key
Differs(a, b) == (DOMAIN a # DOMAIN b) \/ (\E key \in DOMAIN a : a[key] # b[key])

\* the object has the key with the value
Is(s, key, v) == Has(s, key) /\ s[key] = v

LoginPromises == { p \in 1..Len(promises) : promises[p].kind = "login" }

\* how often the provider call api was made for promise p
Times(p, api) == Cardinality({ j \in 1..Len(promises[p].log) : promises[p].log[j] = api })

C2_SilentSingleton ==
    /\ \A i \in 1..Len(calls) :
          (calls[i].silentCalled /\ calls[i].pendingAt # null)
              => (calls[i].handle = calls[i].pendingAt /\ ~ calls[i].issued)
    /\ Cardinality(Pending(World, "acquireTokenSilent", "acquireTokenSilent")) <= 1

\* a second caller got the handle of the request in flight, which has settled since
C2_Witness ==
    \E i \in 1..Len(calls) :
        /\ calls[i].silentCalled
        /\ calls[i].pendingAt # null
        /\ calls[i].handle = calls[i].pendingAt
        /\ promises[calls[i].handle].status # "pending"

\* C3: a setState call installs the merged state and broadcasts once exactly
\* when the merged state differs from the prior one; otherwise the store keeps
\* the prior state and nothing is broadcast; either way it returns the store's
\* state.
C3_ReconcileBroadcastsIffChanged ==
    lastSet.called =>
        LET merged == Spread(lastSet.prev, lastSet.changes)
        IN  /\ Differs(merged, lastSet.prev)
                => (~ Differs(state, merged) /\ lastSet.fired = 1)
            /\ (~ Differs(merged, lastSet.prev))
                => (~ Differs(state, lastSet.prev) /\ lastSet.fired = 0)
            /\ ~ Differs(lastSet.ret, state)

\* a merge of non-empty changes that changed nothing, after an earlier broadcast
C3_Witness ==
    /\ lastSet.called
    /\ lastSet.changes # << >>
    /\ lastSet.fired = 0
    /\ triggers >= 1

\* the run so far is init() followed by login() calls only, and the login
\* promise p was made in the state a fresh init() leaves without an account
EndToEnd(p) ==
    /\ \A i \in 1..Len(calls) : calls[i].op = "login"
    /\ ~ Differs(promises[p].s0, [ authenticated |-> FALSE, authenticating |-> FALSE ])

\* C6: after init() with no account and no interaction in progress the state
\* is {authenticated: false, authenticating: false}; while the login that
\* follows is pending, authenticating is true; once the interactive step has
\* succeeded the state is {authenticating: false, authenticated: true} and the
\* observer has been triggered twice since login() was called.
C6_EndToEnd ==
    /\ (initialized /\ calls = << >> /\ ~ disabled /\ ~ account /\ ~ loginInProgress)
          => ~ Differs(state, [ authenticated |-> FALSE, authenticating |-> FALSE ])
    /\ \A p \in LoginPromises :
          EndToEnd(p) =>
              /\ promises[p].status = "pending" => Is(state, "authenticating", TRUE)
              /\ (promises[p].status = "resolved" /\ promises[p].via = "interactive")
                    => /\ Is(state, "authenticating", FALSE)
                       /\ Is(state, "authenticated", TRUE)
                       /\ triggers - promises[p].t0 = 2

\* the end-to-end run has reached the interactive success
C6_Witness ==
    \E p \in LoginPromises :
        /\ EndToEnd(p)
        /\ promises[p].status = "resolved"
        /\ promises[p].via = "interactive"
        /\ Times(p, "handleRedirectCallback") = 1

\* C9: an acquireToken call without forceTokenRefresh whose cache lookup
\* yields both tokens resolves with the cached container and neither calls
\* acquireTokenSilent nor asks the provider; a call with forceTokenRefresh, or
\* whose lookup lacks a token, calls acquireTokenSilent.
C9_CacheFirst ==
    \A i \in 1..Len(calls) :
        calls[i].op = "acquireToken" =>
            /\ ((~ calls[i].force) /\ calls[i].cache = "both")
                  => (calls[i].result = "cached" /\ ~ calls[i].silentCalled
                      /\ ~ calls[i].issued)
            /\ (calls[i].force \/ calls[i].cache \in {"none", "access", "id"})
                  => (calls[i].silentCalled /\ calls[i].result # "cached")

\* one call was served from the cache, another with only an access token
\* cached went to the provider
C9_Witness ==
    \E i, j \in 1..Len(calls) :
        /\ calls[i].op = "acquireToken" /\ calls[i].cache = "both"
        /\ calls[i].result = "cached"
        /\ calls[j].op = "acquireToken" /\ calls[j].cache = "access"
        /\ calls[j].issued

\* C4: a login() call made after a login has failed does not get the promise
\* that the failed interactive login rejected (the handle was cleared when it
\* settled, and the call starts a new attempt).
C4_RetryAfterFailure ==
    \A i \in 1..Len(calls) :
        (calls[i].op = "login" /\ calls[i].fallback = "settled")
            => ~ (promises[calls[i].handle].status = "rejected"
                  /\ promises[calls[i].handle].via = "interactive")

\* C5: the provider's acquire-token flag is set only while a silent request
\* of acquireTokenSilent is in flight.
C5_MarkerClearedOnSettle ==
    acquireTokenInProgress
        => Pending(World, "acquireTokenSilent", "acquireTokenSilent") # {}

\* C7: a disabled service reports authenticated, and its login() and
\* acquireToken() calls do nothing: no provider call, no error raised or stored.
C7_DisabledNoOps ==
    (initialized /\ disabled) =>
        /\ isAuthenticated(World)
        /\ providerCalls = 0
        /\ Error = ""
        /\ \A i \in 1..Len(calls) :
              /\ calls[i].op = "login" => calls[i].handle = null
              /\ calls[i].op = "acquireToken" => calls[i].result # "error"

\* C8: when the silent acquisition of an acquireToken call has failed, the
\* login() it falls back to has a login flow running at the provider: one it
\* started, or the pending one it joined.
C8_FallbackStartsLogin ==
    \A i \in 1..Len(calls) :
        (calls[i].op = "acquireToken" /\ calls[i].fallback # "none")
            => calls[i].fallback \in {"flow", "attached"}

\* C10: while a login promise is pending, state.authenticating is true; a
\* login settled by a successful silent or interactive step left the state
\* {authenticating: false, authenticated: true}, one settled by a failed
\* interactive step left {authenticating: false, error: e}.
C10_AuthenticatingWhilePending ==
    \A p \in LoginPromises :
        /\ promises[p].status = "pending" => Is(state, "authenticating", TRUE)
        /\ (promises[p].status = "resolved" /\ promises[p].via \in {"silent", "interactive"})
              => (Is(promises[p].snap, "authenticating", FALSE)
                  /\ Is(promises[p].snap, "authenticated", TRUE))
        /\ (promises[p].status = "rejected" /\ promises[p].via = "interactive")
              => (Is(promises[p].snap, "authenticating", FALSE)
                  /\ \E e \in Errors : Is(promises[p].snap, "error", e)
                                       /\ promises[p].value = StateWith(e))

\* login() is invoked in this step on behalf of call i: the call is a login()
\* call made now, or a call whose fallback to login() runs now
LoginInvoked(i) ==
    /\ i \in 1..Len(calls')
    /\ calls'[i].fallback # "none"
    /\ (i <= Len(calls) => calls[i].fallback = "none")

\* C11: whenever login() is invoked on an enabled service that has an account,
\* the promise it returns is resolved with the session state of that moment
\* and no provider call is made for it.
C11_AuthenticatedLoginResolvesCurrent ==
    [][ \A i \in 1..Len(calls') :
          (LoginInvoked(i) /\ account /\ ~ disabled)
              => /\ AuthenticatingPromise' # null
                 /\ promises'[AuthenticatingPromise'].status = "resolved"
                 /\ ~ Differs(promises'[AuthenticatingPromise'].snap, state)
                 /\ providerCalls' = providerCalls ]_vars

\* C12: an sso() promise resolved by ssoSilent, without login(), or by the
\* login() it fell back to, left the state {authenticating: false,
\* authenticated: true}; one rejected left {authenticating: false, error}
\* with error the failure the login flow reported.
C12_SsoContract ==
    \A i \in 1..Len(calls) :
        (calls[i].op = "sso" /\ calls[i].handle # null) =>
            LET S == promises[calls[i].handle]
            IN  /\ (S.status = "resolved" /\ S.via = "sso") => calls[i].fallback = "none"
                /\ S.status = "resolved"
                      => (Is(S.snap, "authenticating", FALSE)
                          /\ Is(S.snap, "authenticated", TRUE))
                /\ S.status = "rejected"
                      => (Is(S.snap, "authenticating", FALSE)
                          /\ \E e \in Errors \cup {"thrown"} : Is(S.snap, "error", e))

\* ------------------------------------------------------------------ logout

\* AuthenticationService.logout: nothing when disabled; otherwise the
\* provider's logout, which drops the account it holds.  The session state
\* store is not touched and the stored promises are kept.
logout(w) ==
    LET i  == Len(w.calls) + 1
        w0 == [ w EXCEPT !.calls = Append(@, [ Call("logout") EXCEPT !.result = "undefined" ]) ]
    IN  IF w.disabled THEN w0
        ELSE [ Provider(w0, "logout", null) EXCEPT !.account = FALSE,
                                                    !.calls[i].issued = TRUE ]

\* logout()
CallLogout ==
    /\ CanCall
    /\ Install(logout(World))
    /\ UNCHANGED << initialized, lastSet, cacheVars, observerVars >>

NextLogout ==
    \/ Next
    \/ CallLogout

SpecLogout == Init /\ [][NextLogout]_vars

\* logout() is called in this step
LogoutCalled ==
    /\ Len(calls') = Len(calls) + 1
    /\ calls'[Len(calls')].op = "logout"

\* C13: a logout() call on an enabled service whose state is authenticated
\* leaves the state with authenticated false and broadcasts the change.
C13_LogoutUnauthenticates ==
    [][ (LogoutCalled /\ ~ disabled /\ Is(state, "authenticated", TRUE))
          => (Is(state', "authenticated", FALSE) /\ triggers' = triggers + 1) ]_vars

\* ------------------------------------------------ cache.util: cached calls

\* what a producer (GraphService.me, GraphService.photoWithSize) resolves with
Produced == { JStr("x"), JStr("y") }

\* what it rejects with
NetworkError == [t |-> "error", name |-> "NetworkError"]

\* texts that something other than write() has left under a key
Corrupt == << "{", Quote("data") >>

ForeignTexts == { Corrupt, << "{", "}" >> }

\* a cacheAsyncCallback call and the producer promise it was given.  The
\* caller makes that promise before the call: the hooks pass
\* GraphService.me() and GraphService.photoWithSize(size), so the request is
\* under way (producer pending) whatever the cache holds.
CacheCall(key, days) ==
    [ key |-> key, days |-> days, found |-> "", result |-> "pending", value |-> JUndefined,
      early |-> FALSE, refresh |-> "none", stored |-> "none",
      producer |-> "pending", produced |-> JUndefined ]

\* an expiry test that takes an entry without expiration for an expired one
ExpiredOrMissing(cache, today) ==
    LET expiration == Get(cache, "expiration")
    IN  (~ Truthy(expiration)) \/ (getTime(expiration) >= 0 /\ today > getTime(expiration))

\* cache?.expiration && new Date().getTime() > new Date(cache.expiration).getTime()
\* (a comparison with NaN is false)
Expired(cache, today) ==
    LET expiration == Get(cache, "expiration")
    IN  Truthy(expiration) /\ getTime(expiration) >= 0 /\ today > getTime(expiration)

\* a cacheAsyncCallback that awaits the refresh of an expired entry
cacheAsyncCallbackBlocking(calls0, store, today, key, days) ==
    LET c == CacheCall(key, days)
        r == read(store, key)
    IN  IF key = ""
        THEN Append(calls0, [ c EXCEPT !.found = "nokey", !.result = "rejected",
                                !.value = [t |-> "error", name |-> "[key] is required."],
                                !.early = TRUE ])
        ELSE IF r.threw
        THEN Append(calls0, [ c EXCEPT !.found = "threw", !.result = "rejected",
                                !.value = [t |-> "error", name |-> "SyntaxError"],
                                !.early = TRUE ])
        ELSE IF Truthy(r.v) /\ ~ Expired(r.v, today)
        THEN Append(calls0, [ c EXCEPT !.found = "fresh", !.result = "resolved",
                                !.value = Get(r.v, "data"), !.early = TRUE ])
        ELSE Append(calls0, [ c EXCEPT !.found = IF Truthy(r.v) THEN "stale" ELSE "miss" ])

\* cacheAsyncCallback(key, promise, { expirationInDays }) up to its first
\* await: a falsy key throws; read's exception passes; an expired entry starts
\* the detached refresh, which awaits the producer; an entry, expired or not,
\* resolves the call with its data; with no entry the call awaits the producer
cacheAsyncCallback(calls0, store, today, key, days) ==
    LET c == CacheCall(key, days)
        r == read(store, key)
    IN  IF key = ""
        THEN Append(calls0, [ c EXCEPT !.found = "nokey", !.result = "rejected",
                                !.value = [t |-> "error", name |-> "[key] is required."],
                                !.early = TRUE ])
        ELSE IF r.threw
        THEN Append(calls0, [ c EXCEPT !.found = "threw", !.result = "rejected",
                                !.value = [t |-> "error", name |-> "SyntaxError"],
                                !.early = TRUE ])
        ELSE IF Truthy(r.v)
        THEN Append(calls0, [ c EXCEPT
                                !.found = IF Expired(r.v, today) THEN "stale" ELSE "fresh",
                                !.refresh = IF Expired(r.v, today) THEN "pending" ELSE "none",
                                !.result = "resolved", !.value = Get(r.v, "data"),
                                !.early = TRUE ])
        ELSE Append(calls0, [ c EXCEPT !.found = "miss" ])

\* call c still has a continuation that waits for its producer
Awaits(c) == c.refresh = "pending" \/ c.result = "pending"

\* a continuation in which the awaiting call does not return the data
producerThenNoReturn(c, data, today, accepts) ==
    LET outcome == IF accepts THEN "written" ELSE "cleared"
        c1 == [ c EXCEPT !.producer = "resolved", !.produced = data ]
    IN  IF c.refresh = "pending" THEN [ c1 EXCEPT !.refresh = outcome, !.stored = outcome ]
        ELSE IF c.result = "pending"
        THEN [ c1 EXCEPT !.result = "resolved", !.value = JUndefined, !.stored = outcome ]
        ELSE c1

\* the continuation of call c once its producer has resolved with data:
\*   write(key, { expiration: dateNextDays(expirationInDays), data }, storageType)
\* in the detached refresh, and the same followed by `return data` in the call
producerThen(c, data, today, accepts) ==
    LET outcome == IF accepts THEN "written" ELSE "cleared"
        c1 == [ c EXCEPT !.producer = "resolved", !.produced = data ]
    IN  IF c.refresh = "pending" THEN [ c1 EXCEPT !.refresh = outcome, !.stored = outcome ]
        ELSE IF c.result = "pending"
        THEN [ c1 EXCEPT !.result = "resolved", !.value = data, !.stored = outcome ]
        ELSE c1

\* a continuation that hands the refresh's failure to the call
producerCatchRaises(c, error) ==
    LET c1 == [ c EXCEPT !.producer = "rejected", !.produced = error ]
    IN  IF c.refresh = "pending"
        THEN [ c1 EXCEPT !.refresh = "failed", !.result = "rejected", !.value = error ]
        ELSE IF c.result = "pending" THEN [ c1 EXCEPT !.result = "rejected", !.value = error ]
        ELSE c1

\* the continuation of call c once its producer has rejected: the detached
\* refresh ends in a rejection nobody handles, the awaiting call rejects
producerCatch(c, error) ==
    LET c1 == [ c EXCEPT !.producer = "rejected", !.produced = error ]
    IN  IF c.refresh = "pending" THEN [ c1 EXCEPT !.refresh = "failed" ]
        ELSE IF c.result = "pending" THEN [ c1 EXCEPT !.result = "rejected", !.value = error ]
        ELSE c1

\* a hook's effect: the producer is invoked, then cacheAsyncCallback is called
CallCached ==
    /\ Len(cacheCalls) < MaxCached
    /\ \E key \in {"", "msal.id.info"}, days \in 0..1 :
          cacheCalls' = cacheAsyncCallback(cacheCalls, storage, now, key, days)
    /\ UNCHANGED << storage, now, lastWrite, serviceVars, observerVars >>

\* the producer of a call resolves
ProducerResolves ==
    /\ \E i \in 1..Len(cacheCalls), data \in Produced, accepts \in BOOLEAN :
          LET c == cacheCalls[i]
          IN  /\ c.producer = "pending"
              /\ Awaits(c) \/ accepts
              /\ cacheCalls' = [ cacheCalls EXCEPT ![i] = producerThen(c, data, now, accepts) ]
              /\ storage' = IF Awaits(c)
                            THEN write(storage, c.key,
                                       Entry(dateNextDays(c.days, now), data), accepts)
                            ELSE storage
    /\ UNCHANGED << now, lastWrite, serviceVars, observerVars >>

\* the producer of a call rejects
ProducerRejects ==
    /\ \E i \in 1..Len(cacheCalls) :
          /\ cacheCalls[i].producer = "pending"
          /\ cacheCalls' = [ cacheCalls EXCEPT ![i] = producerCatch(@, NetworkError) ]
    /\ UNCHANGED << storage, now, lastWrite, serviceVars, observerVars >>

\* a day passes
Tick ==
    /\ now < MaxNow
    /\ now' = now + 1
    /\ UNCHANGED << storage, cacheCalls, lastWrite, serviceVars, observerVars >>

\* the entries earlier sessions may have left under the cache's key: one that
\* never expires and one that expires with day 0
EarlierEntries ==
    { stringify(Entry(JNull, JStr("x"))), stringify(Entry(JDate(0), JStr("x"))) }

\* the page loads with whatever the storage holds under the cache's key:
\* nothing, an entry of an earlier session, or a text something else has left
InitCache ==
    /\ initialized = FALSE
    /\ disabled = FALSE
    /\ state = << >>
    /\ Error = ""
    /\ acquireTokenPromise = null
    /\ AuthenticatingPromise = null
    /\ account = FALSE
    /\ loginInProgress = FALSE
    /\ acquireTokenInProgress = FALSE
    /\ redirectCallback = null
    /\ promises = << >>
    /\ inflight = {}
    /\ triggers = 0
    /\ providerCalls = 0
    /\ calls = << >>
    /\ lastSet = NoSet
    /\ \E item \in { NoItem } \cup { Item(text) : text \in ForeignTexts \cup EarlierEntries } :
          storage = [ key \in Keys |-> IF key = "msal.idtoken" THEN Item(<< Quote("x") >>)
                                       ELSE item ]
    /\ now = 0
    /\ cacheCalls = << >>
    /\ lastWrite = NoWrite
    /\ ObserverIdle

NextCache ==
    \/ CallCached
    \/ ProducerResolves
    \/ ProducerRejects
    \/ Tick

SpecCache == InitCache /\ [][NextCache]_vars

\* ------------------------------------------------ cache.util: properties

\* the value the text under the key stands for
StoredEntry(store, key) == parse(store[key].text).v

\* the expiration an entry written today for `days` days reads back with
ExpirationRead(days, today) == IF days = 0 THEN JNull ELSE JStr(ISO(today + days))

\* call i is made in this step
CachedCallMade(i) == i = Len(cacheCalls) + 1 /\ Len(cacheCalls') = i

\* the producer of call i, which waits for it in the way `waits`, resolves in
\* this step
Refreshed(i, waits) ==
    /\ i <= Len(cacheCalls)
    /\ cacheCalls[i].found = waits
    /\ cacheCalls[i].producer = "pending"
    /\ cacheCalls'[i].producer = "resolved"

\* the entry read under the key of call i after this step is the one made of
\* what the producer resolved with, expiring `days` days from now or never
FreshEntryStored(i) ==
    LET c == cacheCalls'[i]
        r == read(storage', c.key)
    IN  /\ ~ r.threw
        /\ Get(r.v, "data") = c.produced
        /\ Get(r.v, "expiration") = ExpirationRead(c.days, now)

\* a call that finds an expired entry resolves with its data while the
\* producer is pending
StaleServed(i) ==
    (CachedCallMade(i) /\ cacheCalls'[i].found = "stale")
        => /\ cacheCalls'[i].result = "resolved"
           /\ cacheCalls'[i].value = Get(StoredEntry(storage, cacheCalls'[i].key), "data")
           /\ cacheCalls'[i].producer = "pending"
           /\ storage' = storage

\* C14 as stated: a call that finds an expired entry resolves with the stale
\* data without awaiting the producer, and once the producer resolves the
\* entry read under the key holds the fresh data and the new expiration.
C14_StaleRefreshOverwrites ==
    [][ \A i \in 1..Len(cacheCalls') :
          /\ StaleServed(i)
          /\ Refreshed(i, "stale") => FreshEntryStored(i) ]_vars

\* C14 amended: a call that finds an expired entry resolves with the stale
\* data without awaiting the producer; once the producer resolves, the entry
\* read under the key holds the fresh data and the new expiration if the
\* storage took the item, and otherwise the whole storage is empty; the
\* call's result stays the stale data.
C14_StaleWhileRevalidate ==
    [][ \A i \in 1..Len(cacheCalls') :
          /\ StaleServed(i)
          /\ Refreshed(i, "stale")
                => /\ cacheCalls'[i].stored = "written" => FreshEntryStored(i)
                   /\ cacheCalls'[i].stored # "written" => storage' = clear(storage)
                   /\ cacheCalls'[i].result = "resolved"
                   /\ cacheCalls'[i].value = cacheCalls[i].value ]_vars

\* an expired entry was served and has been replaced by fresh, different data
C14_Witness ==
    \E i \in 1..Len(cacheCalls) :
        /\ cacheCalls[i].found = "stale"
        /\ cacheCalls[i].refresh = "written"
        /\ cacheCalls[i].produced # cacheCalls[i].value
        /\ Get(read(storage, cacheCalls[i].key).v, "data") = cacheCalls[i].produced

\* C15: when the producer rejects during the refresh of an expired entry, the
\* call keeps its result, the stale data, and the storage is left as it was.
C15_RefreshFailureSwallowed ==
    [][ \A i \in 1..Len(cacheCalls) :
          (cacheCalls[i].refresh = "pending" /\ cacheCalls'[i].producer = "rejected")
              => /\ cacheCalls'[i].result = "resolved"
                 /\ cacheCalls'[i].value = cacheCalls[i].value
                 /\ cacheCalls'[i].value.t # "error"
                 /\ storage' = storage ]_vars

\* the refresh of an expired entry has failed
C15_Witness ==
    \E i \in 1..Len(cacheCalls) :
        /\ cacheCalls[i].found = "stale"
        /\ cacheCalls[i].refresh = "failed"
        /\ cacheCalls[i].result = "resolved"

\* C16: a call that finds an unexpired entry resolves with its data, and no
\* producer was invoked for it.
C16_FreshHitNoRequest ==
    \A i \in 1..Len(cacheCalls) :
        cacheCalls[i].found = "fresh"
            => (cacheCalls[i].result = "resolved" /\ cacheCalls[i].producer = "none")

\* a call that finds no entry waits for the producer, and rejects with the
\* producer's error, storing nothing, when the producer rejects
MissAwaits(i) ==
    /\ (CachedCallMade(i) /\ cacheCalls'[i].found = "miss")
          => (cacheCalls'[i].result = "pending" /\ storage' = storage)
    /\ (i <= Len(cacheCalls) /\ cacheCalls[i].found = "miss"
        /\ cacheCalls[i].producer = "pending" /\ cacheCalls'[i].producer = "rejected")
          => /\ cacheCalls'[i].result = "rejected"
             /\ cacheCalls'[i].value = cacheCalls'[i].produced
             /\ storage' = storage

\* C17 as stated: a call that finds no entry awaits the producer, stores the
\* entry with the computed expiration and resolves with the fresh data; when
\* the producer rejects the call rejects with that failure and nothing is
\* stored.
C17_MissStoresAndReturns ==
    [][ \A i \in 1..Len(cacheCalls') :
          /\ MissAwaits(i)
          /\ Refreshed(i, "miss")
                => /\ cacheCalls'[i].result = "resolved"
                   /\ cacheCalls'[i].value = cacheCalls'[i].produced
                   /\ FreshEntryStored(i) ]_vars

\* C17 amended: as stated, except that the entry is stored if the storage
\* took the item, and otherwise the whole storage is empty; the call resolves
\* with the fresh data either way.
C17_MissWritesAndReturns ==
    [][ \A i \in 1..Len(cacheCalls') :
          /\ MissAwaits(i)
          /\ Refreshed(i, "miss")
                => /\ cacheCalls'[i].result = "resolved"
                   /\ cacheCalls'[i].value = cacheCalls'[i].produced
                   /\ cacheCalls'[i].stored = "written" => FreshEntryStored(i)
                   /\ cacheCalls'[i].stored # "written" => storage' = clear(storage) ]_vars

\* one call has stored what its producer gave it, another has failed with
\* its producer
C17_Witness ==
    \E i, j \in 1..Len(cacheCalls) :
        /\ cacheCalls[i].found = "miss" /\ cacheCalls[i].stored = "written"
        /\ cacheCalls[i].value = cacheCalls[i].produced
        /\ cacheCalls[j].found = "miss" /\ cacheCalls[j].result = "rejected"

\* C18: a call that finds an entry without expiration, on whatever day,
\* resolves with its data and starts no refresh, and the storage is not
\* written when its producer settles.
C18_NoExpirationNoRefresh ==
    [][ \A i \in 1..Len(cacheCalls') :
          /\ (CachedCallMade(i) /\ cacheCalls'[i].key # ""
              /\ storage[cacheCalls'[i].key].present
              /\ parse(storage[cacheCalls'[i].key].text).ok
              /\ StoredEntry(storage, cacheCalls'[i].key).t = "object"
              /\ Get(StoredEntry(storage, cacheCalls'[i].key), "expiration") = JNull
              /\ Get(StoredEntry(storage, cacheCalls'[i].key), "data") # JUndefined)
                => /\ cacheCalls'[i].result = "resolved"
                   /\ cacheCalls'[i].value
                        = Get(StoredEntry(storage, cacheCalls'[i].key), "data")
                   /\ cacheCalls'[i].refresh = "none"
                   /\ cacheCalls'[i].found = "fresh"
                   /\ storage' = storage
          /\ (i <= Len(cacheCalls) /\ cacheCalls[i].found = "fresh"
              /\ cacheCalls'[i] # cacheCalls[i])
                => (storage' = storage /\ cacheCalls'[i].stored = "none") ]_vars

\* an entry without expiration has been served on the last day, and the
\* producer of that call has resolved since
C18_Witness ==
    \E i \in 1..Len(cacheCalls) :
        /\ cacheCalls[i].found = "fresh"
        /\ cacheCalls[i].producer = "resolved"
        /\ now = MaxNow
        /\ storage["msal.id.info"].present
        /\ Get(StoredEntry(storage, "msal.id.info"), "expiration") = JNull

\* C20: a call with a key never fails for what the storage holds under the
\* key: a text that does not parse counts as no entry, and the call rejects
\* only with its producer's failure.
C20_CorruptIsMiss ==
    \A i \in 1..Len(cacheCalls) :
        cacheCalls[i].key # ""
            => /\ cacheCalls[i].found # "threw"
               /\ cacheCalls[i].result = "rejected" => cacheCalls[i].value = NetworkError

\* ------------------------------------------------- cache.util: round trip

\* JSON-representable values: the scalars, the empty containers, and
\* containers of those
Scalars == { JNull, JBool(FALSE), JBool(TRUE), JNum(0), JNum(1), JStr(""), JStr("x") }

Shallow == Scalars \cup { JArr(<< >>), JObj(<< >>, << >>) }

JsonValues ==
    Shallow
    \cup { JArr(<< v >>) : v \in Shallow }
    \cup { JObj(<< "a" >>, << v >>) : v \in Shallow }
    \cup { JArr(<< JNum(0), JStr("x") >>), JObj(<< "a", "data" >>, << JNull, JArr(<< >>) >>) }

\* the expirations an entry is written with: none, null, or a Date
Expirations == { JUndefined, JNull } \cup { JDate(day) : day \in 0..MaxNow }

\* what write() is called with: an entry, or a bare value
WriteValues ==
    { Entry(expiration, data) : expiration \in Expirations, data \in JsonValues }
    \cup JsonValues \cup { JUndefined }

\* write(key, value) called directly
CallWrite ==
    /\ \E value \in WriteValues, accepts \in BOOLEAN :
          /\ storage' = write(storage, "msal.id.info", value, accepts)
          /\ lastWrite' = [ called |-> TRUE, key |-> "msal.id.info", value |-> value,
                            accepts |-> accepts ]
    /\ UNCHANGED << now, cacheCalls, serviceVars, observerVars >>

NextRoundTrip == CallWrite

SpecRoundTrip == Init /\ [][NextRoundTrip]_vars

\* the latest write stored an entry
EntryWritten ==
    /\ lastWrite.called
    /\ lastWrite.accepts
    /\ lastWrite.value.t = "object"
    /\ lastWrite.value.keys = << "expiration", "data" >>

\* C19: after an entry {data: D, expiration: E} with JSON-representable D has
\* been stored under a key, reading the key gives an entry whose data is D.
C19_RoundTrip ==
    EntryWritten
        => LET r == read(storage, lastWrite.key)
           IN  /\ ~ r.threw
               /\ Get(r.v, "data") = Get(lastWrite.value, "data")

\* an entry without expiration whose data is the empty array has been stored
C19_Witness ==
    /\ EntryWritten
    /\ Get(lastWrite.value, "data") = JArr(<< >>)
    /\ Get(lastWrite.value, "expiration") = JUndefined
    /\ storage[lastWrite.key] = Item(<< "{", Quote("data"), ":", "[", "]", "}" >>)

\* ------------------------------------------------------ Observer: actions

\* const id = observer.subscribe(callback), with a callback of its own
CallSubscribe ==
    /\ Len(subscribers) < MaxSubscribers
    /\ LET r == subscribe(subscriptors, now, Len(subscribers) + 1)
       IN  /\ subscriptors' = r.subs
           /\ subscribers' = Append(subscribers, [ id |-> r.id, unsubscribed |-> 0,
                                                   during |-> FALSE ])
    /\ UNCHANGED << lastTrigger, hookVars, storage, cacheVars, serviceVars >>

\* the holder of subscription k calls observer.unsubscribe(id) with the id
\* it was given, for the first time or once more
CallUnsubscribe ==
    \E k \in 1..Len(subscribers) :
        /\ subscribers[k].unsubscribed < 2
        /\ subscriptors' = unsubscribe(subscriptors, subscribers[k].id)
        /\ subscribers' = [ subscribers EXCEPT ![k].unsubscribed = @ + 1 ]
        /\ UNCHANGED << lastTrigger, hookVars, storage, cacheVars, serviceVars >>

\* observer.unsubscribe(id) with an id that subscribe never returned
CallUnsubscribeUnissued ==
    /\ subscriptors' = unsubscribe(subscriptors, Unissued)
    /\ UNCHANGED << subscribers, lastTrigger, hookVars, storage, cacheVars, serviceVars >>

\* observer.trigger(args); at most one of the callbacks throws
CallTrigger ==
    \E throwers \in { {} } \cup { { k } : k \in 1..Len(subscribers) } :
        LET r == trigger(subscriptors, 1, throwers)
        IN  /\ lastTrigger' =
                  [ called  |-> TRUE,
                    live    |-> { k \in 1..Len(subscribers) :
                                    subscribers[k].unsubscribed = 0 },
                    invoked |-> r.invoked,
                    threw   |-> r.threw ]
            /\ UNCHANGED << subscriptors, subscribers, hookVars, storage, cacheVars, serviceVars >>

NextObserver ==
    \/ CallSubscribe
    \/ CallUnsubscribe
    \/ CallUnsubscribeUnissued
    \/ CallTrigger
    \/ Tick

SpecObserver == Init /\ [][NextObserver]_vars

\* --------------------------------------------------- Observer: properties

\* the callback of subscription k is in the object
Registered(subs, k) == \E n \in 1..Len(subs) : subs[n].callback = k

\* how many times a trigger has invoked the callback of subscription k
Invocations(invoked, k) == Cardinality({ n \in 1..Len(invoked) : invoked[n] = k })

\* no two subscribe calls have returned the same id
IdsDistinct ==
    \A j, k \in 1..Len(subscribers) : j # k => subscribers[j].id # subscribers[k].id

\* C21: in a trigger in which no callback throws, every callback that was
\* subscribed and not unsubscribed when the trigger started is invoked
\* exactly once, subscriptions of one clock tick included.
C21_EveryLiveSubscriberOnce ==
    (lastTrigger.called /\ ~ lastTrigger.threw)
        => \A k \in lastTrigger.live : Invocations(lastTrigger.invoked, k) = 1

\* C22: the ids of the subscriptions that are registered and not
\* unsubscribed are pairwise different, subscriptions of one clock tick
\* included.
C22_LiveIdsUnique ==
    \A j, k \in 1..Len(subscribers) :
        (j # k /\ subscribers[j].unsubscribed = 0 /\ subscribers[k].unsubscribed = 0)
            => subscribers[j].id # subscribers[k].id

\* unsubscribe(id) is called in this step with an id that was unsubscribed
\* before
RepeatedUnsubscribe ==
    \E k \in 1..Len(subscribers) :
        /\ Len(subscribers') = Len(subscribers)
        /\ subscribers[k].unsubscribed = 1
        /\ subscribers'[k].unsubscribed = 2

\* unsubscribe(id) is called in this step with an id never issued
UnissuedUnsubscribe ==
    /\ subscribers' = subscribers
    /\ Slot(subscriptors, Unissued) = 0
    /\ Slot(subscriptors', Unissued) # 0

\* C23: a trigger invokes no callback whose holder has unsubscribed, and an
\* unsubscribe(id) that is made a second time, or with an id never issued,
\* leaves every other subscription's callback registered.
C23_UnsubscribeIsFinalAndHarmless ==
    [][ /\ (lastTrigger' # lastTrigger)
            => \A k \in 1..Len(subscribers) :
                  Invocations(lastTrigger'.invoked, k) > 0 => subscribers[k].unsubscribed = 0
        /\ (RepeatedUnsubscribe \/ UnissuedUnsubscribe)
            => \A k \in 1..Len(subscribers) :
                  (subscribers'[k].unsubscribed = 0 /\ Registered(subscriptors, k))
                      => Registered(subscriptors', k) ]_vars

\* C24: when a callback throws during a trigger, every other callback that
\* was subscribed and not unsubscribed is invoked all the same (the ids being
\* pairwise different).
C24_ThrowingCallbackIsolated ==
    (lastTrigger.called /\ lastTrigger.threw /\ IdsDistinct)
        => \A k \in lastTrigger.live : Invocations(lastTrigger.invoked, k) = 1

\* ------------------------------------- AuthenticationService: the queries

\* the call is recorded with what it has returned or thrown
Returned(w, op, result, value) ==
    [ w EXCEPT !.calls = Append(@, [ Call(op) EXCEPT !.result = result,
                                                      !.value = value ]) ]

\* a clearCache that asks the provider whether disabled or not
clearCacheUnguarded(w, keepsAccount) ==
    [ Provider(Returned(w, "clearCache", "undefined", ""), "clearCache", null)
         EXCEPT !.account = @ /\ keepsAccount ]

\* AuthenticationService.clearCache: nothing when disabled; otherwise the
\* provider's clearCache, which may or may not keep the account
clearCache(w, keepsAccount) ==
    IF w.disabled THEN Returned(w, "clearCache", "undefined", "")
    ELSE [ Provider(Returned(w, "clearCache", "undefined", ""), "clearCache", null)
              EXCEPT !.account = @ /\ keepsAccount ]

\* AuthenticationService.getAuthority
getAuthority(w) ==
    IF w.disabled THEN Returned(w, "getAuthority", "null", "")
    ELSE Provider(Returned(w, "getAuthority", "value", ""), "getAuthorityInstance", null)

\* AuthenticationService.getAccount: the provider's account, or its null
getAccount(w) ==
    IF w.disabled THEN Returned(w, "getAccount", "null", "")
    ELSE Provider(Returned(w, "getAccount", IF w.account THEN "value" ELSE "null", ""),
                  "getAccount", null)

\* AuthenticationService.getId, getUserName and getClaims: null when
\* disabled, otherwise context.getAccount()?.field
projection(w, op) ==
    IF w.disabled THEN Returned(w, op, "null", "")
    ELSE Provider(Returned(w, op, IF w.account THEN "value" ELSE "undefined", ""),
                  "getAccount", null)

getId(w) == projection(w, "getId")

getUserName(w) == projection(w, "getUserName")

getClaims(w) == projection(w, "getClaims")

\* getRoles has returned or thrown, the account's claims being as given
RolesReturned(w, claims, result, value) ==
    [ w EXCEPT !.calls = Append(@, [ Call("getRoles") EXCEPT !.claims = claims,
                                                             !.result = result,
                                                             !.value = value ]) ]

\* a getRoles that raises MissingClaim for claims without roles
getRolesMissingClaim(w, hasRoles) ==
    IF w.disabled THEN RolesReturned(w, "", "null", "")
    ELSE LET w1 == Provider(w, "getAccount", null)
         IN  IF ~ w.account THEN RolesReturned(w1, "undefined", "error", "TypeError")
             ELSE IF hasRoles THEN RolesReturned(w1, "roles", "value", "roles")
             ELSE RolesReturned(w1, "noroles", "error", "MissingClaim")

\* AuthenticationService.getRoles.  null when disabled.  Otherwise the
\* claims are taken from getAccount() ?? {}: they are undefined when there is
\* no account, and hasOwnProperty.call(undefined, 'roles') throws a
\* TypeError.  With an account the roles are returned when the claims have
\* them (hasRoles), and null when they have not.
getRoles(w, hasRoles) ==
    IF w.disabled THEN RolesReturned(w, "", "null", "")
    ELSE LET w1 == Provider(w, "getAccount", null)
         IN  IF ~ w.account THEN RolesReturned(w1, "undefined", "error", "TypeError")
             ELSE IF hasRoles THEN RolesReturned(w1, "roles", "value", "roles")
             ELSE RolesReturned(w1, "noroles", "null", "")

\* AuthenticationService.isAuthenticating:
\*   !disabled && (authenticating || context.getLoginInProgress())
isAuthenticating(w) ==
    (~ w.disabled) /\ (Is(w.state, "authenticating", TRUE) \/ w.loginInProgress)

\* true and false as a call's result
Boolean(b) == IF b THEN "true" ELSE "false"

\* ------------------------------------------------ the queries: actions

\* acquireTokenInCache(), called directly
CallAcquireTokenInCache ==
    /\ CanCall
    /\ \E arg \in { JUndefined } \cup { JObj(<< "scopes" >>, << scopes >>) :
                                              scopes \in ScopeSets },
          lookup \in CacheLookups :
          LET r == acquireTokenInCache(World, arg, lookup)
              c == [ Call("acquireTokenInCache") EXCEPT
                       !.scopes = Scopes(arg),
                       !.lookedUp = r.scopes,
                       !.cache  = IF disabled THEN "skip" ELSE lookup,
                       !.result = IF r.threw THEN "error" ELSE "returned",
                       !.value  = r.ret ]
          IN  Install([ r.w EXCEPT !.calls = Append(@, c) ])
    /\ UNCHANGED << initialized, lastSet, cacheVars, observerVars >>

\* clearCache()
CallClearCache ==
    /\ CanCall
    /\ \E keepsAccount \in BOOLEAN : Install(clearCache(World, keepsAccount))
    /\ UNCHANGED << initialized, lastSet, cacheVars, observerVars >>

\* isAuthenticated(): the provider is asked for the account unless disabled
CallIsAuthenticated ==
    /\ CanCall
    /\ LET w == Returned(World, "isAuthenticated", Boolean(isAuthenticated(World)), "")
       IN  Install(IF disabled THEN w ELSE Provider(w, "getAccount", null))
    /\ UNCHANGED << initialized, lastSet, cacheVars, observerVars >>

\* isAuthenticating(): the provider is asked for its flag when the service
\* is enabled and its state is not authenticating
CallIsAuthenticating ==
    /\ CanCall
    /\ LET w == Returned(World, "isAuthenticating", Boolean(isAuthenticating(World)), "")
       IN  Install(IF disabled \/ Is(state, "authenticating", TRUE) THEN w
                   ELSE Provider(w, "getLoginInProgress", null))
    /\ UNCHANGED << initialized, lastSet, cacheVars, observerVars >>

\* getAuthority(), getAccount(), getId(), getUserName() or getClaims()
CallGetter ==
    /\ CanCall
    /\ \E w \in { getAuthority(World), getAccount(World), getId(World),
                  getUserName(World), getClaims(World) } : Install(w)
    /\ UNCHANGED << initialized, lastSet, cacheVars, observerVars >>

\* getRoles(), whatever the claims of the account hold
CallGetRoles ==
    /\ CanCall
    /\ \E hasRoles \in BOOLEAN : Install(getRoles(World, hasRoles))
    /\ UNCHANGED << initialized, lastSet, cacheVars, observerVars >>

\* the service initialized and asked only what it answers at once
NextQueries ==
    \/ CallInit
    \/ CallAcquireTokenInCache
    \/ CallClearCache
    \/ CallIsAuthenticated
    \/ CallIsAuthenticating
    \/ CallGetter
    \/ CallGetRoles

SpecQueries == Init /\ [][NextQueries]_vars

\* the service object before init
Fresh ==
    [ disabled |-> FALSE, state |-> << >>, Error |-> "",
      acquireTokenPromise |-> null, AuthenticatingPromise |-> null,
      account |-> FALSE, loginInProgress |-> FALSE,
      acquireTokenInProgress |-> FALSE, redirectCallback |-> null,
      promises |-> << >>, inflight |-> {}, triggers |-> 0,
      providerCalls |-> 0, calls |-> << >>, lastSet |-> NoSet,
      storage |-> [ key \in Keys |-> NoItem ] ]

\* the service as init(config, true) leaves it
InitDisabled ==
    LET w == init(Fresh, [ disabled |-> FALSE ], TRUE, FALSE, FALSE)
    IN  /\ initialized = TRUE
        /\ disabled = w.disabled
        /\ state = w.state
        /\ Error = w.Error
        /\ acquireTokenPromise = w.acquireTokenPromise
        /\ AuthenticatingPromise = w.AuthenticatingPromise
        /\ account = w.account
        /\ loginInProgress = w.loginInProgress
        /\ acquireTokenInProgress = w.acquireTokenInProgress
        /\ redirectCallback = w.redirectCallback
        /\ promises = w.promises
        /\ inflight = w.inflight
        /\ triggers = w.triggers
        /\ providerCalls = w.providerCalls
        /\ calls = w.calls
        /\ lastSet = NoSet
        /\ CacheIdle
        /\ ObserverIdle

\* every operation of a disabled service
NextDisabled ==
    \/ CallLogin
    \/ CallSso
    \/ CallAcquireToken
    \/ CallAcquireTokenSilent
    \/ CallAcquireTokenInCache
    \/ CallLogout
    \/ CallClearCache
    \/ CallIsAuthenticated
    \/ CallIsAuthenticating
    \/ CallGetter
    \/ CallGetRoles

SpecDisabled == InitDisabled /\ [][NextDisabled]_vars

\* ---------------------------------------------- the queries: properties

\* the call made in this step, if it is a call of op
Made(op) ==
    /\ Len(calls') = Len(calls) + 1
    /\ calls'[Len(calls')].op = op

\* C25: an acquireTokenInCache call whose lookup raises cannot_parse_cache
\* leaves the whole storage empty and raises that error to its caller; a call
\* whose lookup raises another error leaves the storage as it was and raises
\* that error.
C25_CorruptClearsStorage ==
    [][ Made("acquireTokenInCache") =>
          LET c == calls'[Len(calls')]
          IN  /\ c.cache = "cannot_parse_cache" =>
                    /\ c.result = "error" /\ c.value = "cannot_parse_cache"
                    /\ \A key \in Keys : storage'[key] = NoItem
              /\ c.cache = "other_error" =>
                    /\ c.result = "error" /\ c.value = "other_error"
                    /\ storage' = storage ]_vars

\* a storage that held an item has been emptied by a call whose lookup raised
\* cannot_parse_cache
C25_Witness ==
    /\ Len(calls) = 1
    /\ calls[1].op = "acquireTokenInCache"
    /\ calls[1].cache = "cannot_parse_cache"
    /\ calls[1].result = "error"
    /\ \A key \in Keys : storage[key] = NoItem

\* C26: an acquireToken call whose cache lookup raises an error gets a
\* rejected promise, and the error is in the session state's error field.
C26_FailureRejectsAndIsRecorded ==
    \A i \in 1..Len(calls) :
        (calls[i].op = "acquireToken"
            /\ calls[i].cache \in {"cannot_parse_cache", "other_error"})
            => /\ calls[i].result = "rejected"
               /\ Has(state, "error")

\* no login and no sso promise is pending
Settled == \A p \in 1..Len(promises) :
              promises[p].kind \in {"login", "sso"} => promises[p].status # "pending"

\* C27: whenever no login or sso operation is pending, the session state
\* does not have authenticated and authenticating both true.
C27_NoOverlapWhenSettled ==
    (initialized /\ Settled)
        => ~ (Is(state, "authenticated", TRUE) /\ Is(state, "authenticating", TRUE))

\* C28: right after init, an enabled service has authenticated equal to the
\* provider holding an account and authenticating equal to the provider's
\* login-in-progress flag; a disabled one has authenticated true,
\* authenticating false, and nothing of a provider context.
C28_InitEstablishesState ==
    (initialized /\ calls = << >>)
        => IF disabled
           THEN /\ state = [ authenticated |-> TRUE, authenticating |-> FALSE ]
                /\ providerCalls = 0 /\ ~ account /\ ~ loginInProgress
           ELSE state = [ authenticated |-> account, authenticating |-> loginInProgress ]

\* an enabled service initialized while the provider holds an account and
\* reports a login in progress
C28_Witness ==
    /\ initialized /\ calls = << >> /\ ~ disabled
    /\ account /\ loginInProgress
    /\ state = [ authenticated |-> TRUE, authenticating |-> TRUE ]

\* C29: no operation of a disabled service calls the provider or leaves a
\* request with it; isAuthenticated is true throughout and every
\* isAuthenticated() call returns true; logout and clearCache change nothing.
C29_DisabledNeverCallsProvider ==
    [][ /\ providerCalls' = 0
        /\ inflight' = {}
        /\ disabled' \/ account'
        /\ Made("isAuthenticated") => calls'[Len(calls')].result = "true"
        /\ (Made("logout") \/ Made("clearCache"))
              => UNCHANGED << disabled, state, Error, acquireTokenPromise,
                              AuthenticatingPromise, account, loginInProgress,
                              acquireTokenInProgress, redirectCallback, promises,
                              inflight, triggers, providerCalls, storage >> ]_vars

\* a disabled service that has been asked to clear the cache and to get a
\* token
C29_Witness ==
    /\ disabled
    /\ Len(calls) = 2
    /\ calls[1].op = "clearCache"
    /\ calls[2].op = "acquireToken"
    /\ providerCalls = 0

SilentInFlight == { r \in inflight : r.api = "acquireTokenSilent" }

\* C31: the provider never has two silent token requests in flight,
\* whichever of login, acquireTokenSilent and acquireToken made them.
C31_OneSilentRequestInFlight == Cardinality(SilentInFlight) <= 1

\* the interactive calls of the provider
Interactive == { LOGIN_TYPE.REDIRECT, LOGIN_TYPE.POPUP }

\* C33: for every login, each interactive call in the provider calls made
\* for it comes after a handleRedirectCallback call, the interactive call is
\* the one of the login's type, and while it is in flight the provider holds
\* the login's callback.
C33_CallbackBeforeInteractive ==
    /\ \A p \in 1..Len(promises) : \A j \in 1..Len(promises[p].log) :
          promises[p].log[j] \in Interactive
              => \E h \in 1..(j - 1) : promises[p].log[h] = "handleRedirectCallback"
    /\ \A r \in inflight :
          r.api \in Interactive => (r.api = r.type /\ redirectCallback = r.p)

\* a popup login whose silent step failed is waiting for the popup
C33_Witness ==
    \E r \in inflight :
        /\ r.api = LOGIN_TYPE.POPUP
        /\ promises[r.p].log = << "acquireTokenSilent", "handleRedirectCallback",
                                  LOGIN_TYPE.POPUP >>

\* C38: whenever no login or sso operation is pending, a state with
\* authenticated true has no error.
C38_AuthenticatedHasNoError ==
    (initialized /\ Settled /\ Is(state, "authenticated", TRUE)) => ~ Has(state, "error")

\* the service with a provider that settles every request it is given
SpecLive ==
    /\ Spec
    /\ WF_vars(SilentResolves \/ SilentRejects)
    /\ WF_vars(LoginSilentResolves \/ LoginSilentRejects)
    /\ WF_vars(InteractiveSucceeds \/ InteractiveFails)
    /\ WF_vars(SsoResolves \/ SsoRejects)

\* C32: every acquireToken call on an enabled service eventually has its
\* promise settled, the provider settling every request.
C32_AcquireTokenSettles ==
    \A i \in 1..MaxCalls :
        [] ( (Len(calls) >= i /\ calls[i].op = "acquireToken" /\ ~ disabled)
               => <> (Len(calls) >= i /\ calls[i].result # "pending") )

\* the key under which the provider keeps the identity token
AuthTokenKey == "msal.idtoken"

\* C37: no cached call and no write of the cache changes the item the
\* storage holds under a key of the provider.
C37_OtherKeysUntouched ==
    [][ storage'[AuthTokenKey] = storage[AuthTokenKey] ]_vars

\* ------------------------------------------- login with a throwing observer

\* login's chain on its silent request is .then(onSuccess).catch(onFailure),
\* so the catch also takes what the then handler throws.  The handler calls
\* setState, which assigns the state and then triggers the observer; when a
\* subscriber throws there, resolve is not reached, the state stays changed
\* and the catch hands over the callback and makes the interactive call.
\* When setState finds no difference nothing is triggered and nothing thrown.
loginSilentThenThrows(w, L, type) ==
    LET w1 == setState(w, [ authenticating |-> FALSE, authenticated |-> TRUE ])
    IN  IF w1.triggers = w.triggers THEN loginSilentThen(w, L)
        ELSE loginSilentCatch(w1, L, type)

\* the provider resolves the silent request login made, and a subscriber
\* throws when it is told
LoginSilentResolvesObserverThrows ==
    /\ \E r \in Pending(World, "acquireTokenSilent", "login") :
          Install(loginSilentThenThrows([ Landed(World, r) EXCEPT
                                            !.account = TRUE,
                                            !.promises[r.p].silent = "resolved" ],
                                        r.p, r.type))
    /\ UNCHANGED << initialized, lastSet, cacheVars, observerVars >>

NextThrowingObserver ==
    \/ Next
    \/ LoginSilentResolvesObserverThrows

SpecThrowingObserver == Init /\ [][NextThrowingObserver]_vars

\* C36: a login whose silent request the provider resolved has made no
\* interactive call and is not rejected.
C36_InteractiveOnlyAfterSilentRejected ==
    \A p \in 1..Len(promises) :
        (promises[p].kind = "login" /\ promises[p].silent = "resolved")
            => /\ \A j \in 1..Len(promises[p].log) : promises[p].log[j] \notin Interactive
               /\ promises[p].status # "rejected"

\* acquireToken({ scopes, forceTokenRefresh }) for any scopes
CallAcquireTokenFor ==
    /\ CanCall
    /\ \E scopes \in ScopeSets, force \in BOOLEAN, lookup \in CacheLookups,
          throws \in BOOLEAN :
          /\ force => lookup = "none"
          /\ Install(acquireToken(World, scopes, force, lookup, throws))
    /\ UNCHANGED << initialized, lastSet, cacheVars, observerVars >>

\* the service with callers that ask tokens for scopes of their own
NextScopes ==
    \/ CallInit
    \/ CallLogin
    \/ CallAcquireTokenSilent
    \/ CallAcquireTokenFor
    \/ CallSso
    \/ SilentResolves
    \/ SilentRejects
    \/ LoginSilentResolves
    \/ LoginSilentRejects
    \/ InteractiveSucceeds
    \/ InteractiveFails
    \/ SsoResolves
    \/ SsoRejects

SpecScopes == Init /\ [][NextScopes]_vars

\* C40: an acquireToken call that is resolved from the provider's cache
\* has had the lookup made for the scopes it was called with.
C40_LookupForRequestedScopes ==
    \A i \in 1..Len(calls) :
        (calls[i].op = "acquireToken" /\ calls[i].result = "cached")
            => calls[i].lookedUp = calls[i].scopes

\* ------------------------------------- Observer: callbacks that subscribe

\* what a callback does when it is invoked: nothing to the observer, a
\* subscribe of a further callback, or the unsubscribe of its own id
Effects == { "none", "subscribe", "unsubscribe" }

\* Object.values(this.subscriptors), taken once when the loop starts
Values(subs) == [ n \in 1..Len(subs) |-> subs[n].callback ]

\* the effect of callback cb on the observer o during a broadcast
Effect(o, cb, effect, clock) ==
    IF effect = "subscribe" /\ Len(o.subscribers) < MaxSubscribers
    THEN LET r == subscribe(o.subs, clock, Len(o.subscribers) + 1)
         IN  [ o EXCEPT !.subs = r.subs,
                        !.subscribers = Append(@, [ id |-> r.id, unsubscribed |-> 0,
                                                    during |-> TRUE ]) ]
    ELSE IF effect = "unsubscribe" /\ o.subscribers[cb].unsubscribed < 2
    THEN [ o EXCEPT !.subs = unsubscribe(@, o.subscribers[cb].id),
                    !.subscribers[cb].unsubscribed = @ + 1 ]
    ELSE o

\* Observer.trigger from value n on, with callbacks that change the
\* observer: the loop runs over the values taken at its start
RECURSIVE broadcast(_, _, _, _, _)
broadcast(o, values, n, effects, clock) ==
    IF n > Len(values) THEN o
    ELSE IF values[n] = undefined THEN broadcast(o, values, n + 1, effects, clock)
    ELSE LET cb == values[n]
             o1 == [ o EXCEPT !.invoked = Append(@, cb) ]
         IN  broadcast(Effect(o1, cb, effects[cb], clock), values, n + 1,
                       effects, clock)

\* observer.trigger(args) with callbacks that subscribe and unsubscribe
CallBroadcast ==
    \E effects \in [ 1..Len(subscribers) -> Effects ] :
        LET o == broadcast([ subs |-> subscriptors, subscribers |-> subscribers,
                             invoked |-> << >> ],
                           Values(subscriptors), 1, effects, now)
        IN  /\ subscriptors' = o.subs
            /\ subscribers' = o.subscribers
            /\ lastTrigger' =
                  [ called  |-> TRUE,
                    live    |-> { k \in 1..Len(subscribers) :
                                    subscribers[k].unsubscribed = 0 },
                    invoked |-> o.invoked,
                    threw   |-> FALSE ]
            /\ UNCHANGED << hookVars, storage, cacheVars, serviceVars >>

NextBroadcast ==
    \/ CallSubscribe
    \/ CallUnsubscribe
    \/ CallBroadcast
    \/ Tick

SpecBroadcast == Init /\ [][NextBroadcast]_vars

\* a broadcast is made in this step
Broadcast == lastTrigger' # lastTrigger

\* C34: a callback subscribed during a broadcast is not invoked in that
\* broadcast, no callback is invoked twice in one broadcast, and a callback
\* that was subscribed during an earlier broadcast and not unsubscribed since
\* is invoked.
C34_MutationDuringBroadcast ==
    [][ Broadcast =>
          /\ \A k \in (Len(subscribers) + 1)..Len(subscribers') :
                Invocations(lastTrigger'.invoked, k) = 0
          /\ \A k \in 1..Len(subscribers) :
                Invocations(lastTrigger'.invoked, k) <= 1
          /\ \A k \in lastTrigger'.live :
                subscribers[k].during => Invocations(lastTrigger'.invoked, k) = 1 ]_vars

\* --------------------------------- the store and its observer, together

\* a subscriber that starts a login when it is told a state that is neither
\* authenticated nor authenticating:
\*   (state) => { if (!state.authenticated && !state.authenticating) login(); }
Reacts(payload) ==
    (~ Is(payload, "authenticated", TRUE)) /\ (~ Is(payload, "authenticating", TRUE))

\* observer.trigger(payload) from value n on, as setState calls it.  x holds
\* the service and the deliveries made so far; each delivery records the
\* payload and the state the store has at that moment.  A subscriber of
\* reacts calls login(), whose setState({ authenticating: true }) runs a
\* trigger of its own, over the values the object has then, before the loop
\* of this one goes on with the payload it was given.
RECURSIVE Notify(_, _, _, _, _)
Notify(x, values, n, payload, reacts) ==
    IF n > Len(values) THEN x
    ELSE IF values[n] = undefined THEN Notify(x, values, n + 1, payload, reacts)
    ELSE LET cb == values[n]
             x1 == [ x EXCEPT !.deliveries =
                       Append(@, [ to |-> cb, payload |-> payload,
                                   current |-> x.w.state ]) ]
             r  == login(x1.w, LOGIN_TYPE.REDIRECT, FALSE)
             x2 == IF cb \in reacts /\ Reacts(payload)
                   THEN IF r.w.triggers > x1.w.triggers
                        THEN Notify([ x1 EXCEPT !.w = r.w ], values, 1, r.w.state, reacts)
                        ELSE [ x1 EXCEPT !.w = r.w ]
                   ELSE x1
         IN  Notify(x2, values, n + 1, payload, reacts)

\* setState(changes) for any partial changes, with the subscribers told
ReconcileNotified ==
    /\ initialized
    /\ triggers < MaxBroadcasts
    /\ \E changes \in PartialStates, reacts \in SUBSET (1..Len(subscribers)) :
          LET w == setState(World, changes)
              x == IF w.triggers > triggers
                   THEN Notify([ w |-> w, deliveries |-> << >> ],
                               Values(subscriptors), 1, w.state, reacts)
                   ELSE [ w |-> w, deliveries |-> << >> ]
          IN  /\ Install(x.w)
              /\ deliveries' = x.deliveries
    /\ UNCHANGED << initialized, lastSet, cacheVars, subscriptors, subscribers,
                    lastTrigger, consumers >>

NextNotify ==
    \/ CallInit
    \/ CallSubscribe
    \/ Tick
    \/ ReconcileNotified

SpecNotify == Init /\ [][NextNotify]_vars

\* C35: every callback is invoked with the state the store has at that
\* moment, whole, also when a callback changes the state.
C35_PayloadIsCurrentState ==
    \A j \in 1..Len(deliveries) : deliveries[j].payload = deliveries[j].current

\* ------------------------------------------------ useAuthenticationState

\* a component renders for the first time:
\*   const [ state, setState ] = useState(AuthenticationService.state)
Render ==
    /\ initialized
    /\ Len(consumers) < MaxSubscribers
    /\ consumers' = Append(consumers, [ held |-> state, phase |-> "rendered", id |-> "" ])
    /\ UNCHANGED << subscriptors, subscribers, lastTrigger, deliveries, storage,
                    cacheVars, serviceVars >>

\* the effect of a rendered component runs, after the commit:
\*   const id = AuthenticationService.observer.subscribe((newState) => setState(newState))
RunEffect ==
    \E k \in 1..Len(consumers) :
        /\ consumers[k].phase = "rendered"
        /\ LET r == subscribe(subscriptors, now, k)
           IN  /\ subscriptors' = r.subs
               /\ consumers' = [ consumers EXCEPT ![k].phase = "subscribed",
                                                  ![k].id = r.id ]
        /\ UNCHANGED << subscribers, lastTrigger, deliveries, storage, cacheVars,
                        serviceVars >>

\* a component unmounts and the cleanup of its effect runs:
\*   () => AuthenticationService.observer.unsubscribe(id)
Unmount ==
    \E k \in 1..Len(consumers) :
        /\ consumers[k].phase = "subscribed"
        /\ subscriptors' = unsubscribe(subscriptors, consumers[k].id)
        /\ consumers' = [ consumers EXCEPT ![k].phase = "unmounted" ]
        /\ UNCHANGED << subscribers, lastTrigger, deliveries, storage, cacheVars,
                        serviceVars >>

\* the components whose callback the observer holds take the payload
Told(held, values, payload) ==
    [ k \in 1..Len(held) |->
        IF \E n \in 1..Len(values) : values[n] = k
        THEN [ held[k] EXCEPT !.held = payload ]
        ELSE held[k] ]

\* the changes sso and login make to the state
LoginChanges ==
    { [ authenticating |-> TRUE ],
      [ authenticating |-> FALSE, authenticated |-> TRUE ],
      [ authenticating |-> FALSE, error |-> "e1" ] }

\* the service changes its state: setState(changes), whose trigger calls
\* the callbacks of the hooks
Change ==
    /\ initialized
    /\ triggers < MaxBroadcasts
    /\ \E changes \in LoginChanges :
          LET w == setState(World, changes)
          IN  /\ Install(w)
              /\ consumers' = IF w.triggers > triggers
                              THEN Told(consumers, Values(subscriptors), w.state)
                              ELSE consumers
    /\ UNCHANGED << initialized, lastSet, cacheVars, subscriptors, subscribers,
                    lastTrigger, deliveries >>

NextHooks ==
    \/ CallInit
    \/ Render
    \/ RunEffect
    \/ Unmount
    \/ Change
    \/ Tick

SpecHooks == Init /\ [][NextHooks]_vars

\* no effect is waiting to run and no login is under way
HooksSettled ==
    /\ \A k \in 1..Len(consumers) : consumers[k].phase # "rendered"
    /\ ~ Is(state, "authenticating", TRUE)

\* C39: once the effects have run and no login is under way, every component
\* that is mounted holds the state of the store.
C39_ConsumersHoldCurrentState ==
    HooksSettled =>
        \A k \in 1..Len(consumers) :
            consumers[k].phase = "subscribed" => consumers[k].held = state

====
